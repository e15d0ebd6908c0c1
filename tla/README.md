# EveryoneTalk in TLA+

EveryoneTalk is a terminal chat program in C++: a server (`src/server`) with one
thread per client connection and one notifier thread, a MySQL database behind
it, and clients (`src/client`) with a command thread and a listener thread. This
directory models the parts of it whose correctness depends on order, overlap and
failure, checks them with TLC on small instances, and proves the main results
with TLAPS for every instance.

Line numbers in this file and in `PROJECT.json` count newline characters.

## 1. The system

### Components

| Component | State | Operations | Code |
|---|---|---|---|
| Notification hand-off | `ctrl_sc` (flag, type), `us_change`, `s_msg`, `state_mutex`, `state_cond` | post (tail of login, change, quit, send), `notify_client` | `server.cpp` 18-44, 265-335, 512-649 |
| Sessions and presence | `g_vecTableLogin`, table `login_info` | login, change state, quit, lookups by name and id | `server.cpp` 438-523, 574-618; `tbl_logininfo.cpp`; `execute_sql.cpp` |
| Accounts and friendships | `g_vecTableUSer`, `g_vecTableFriend`, tables `user_info`, `friend_info` | register, lookups, load at start | `tbl_userinfo.cpp`, `tbl_friendinfo.cpp` |
| Connection loop | one socket per thread, `msg_recv` | read a line, dispatch, reply; ends on quit | `server.cpp` 92-262 |
| Delivery | one socket per notice | connect, write, read the answer, close | `notify_client.cpp` |
| Line reader | static buffer `read_buf`, `read_cnt`, `read_ptr` | `Readline` | `readline_server.cpp`, `client/wrapsock.cpp` |
| Port allocation | `c_port` in `config.ini` | read and increment at start, write back at exit | `client/read_config.cpp` 212-248 |
| Friend window | `f_lists`, `print_f_lists`, positions | init, up, down, modify, state notice | `client/deal_friend_data.cpp` |
| Talk window | `message_lists`, `print_talk_lists`, positions | init, up, down, send, receive | `client/deal_talk_data.cpp` |
| Client shell | `g_interface_*`, `pf_lists`, socket | register, login, friend screen, talk screen, listener | `client/client_gui.cpp`, `everyone_talk.cpp` |
| Message formats, wrappers | none | serialise, system calls | `serialize_msg.cpp`, `wrap*.cpp` |

`server_bak.cpp`, `testMySQL.cpp`, `process_instance.cpp`, `keyboard.cpp`,
`ftrace.c` and the test programs are not part of the built program.

### How they interact

A client sends one line per request and waits for the answer, or, after a quit,
for the server to close the connection. The handler thread changes
a vector, writes the database, and posts a notification into a *single* global
slot; the notifier thread takes the post, looks up whom to tell, and calls each
of these clients in turn at the address it logged in with. The client's listener
thread answers these calls and changes what the windows show.

### What is hard

* the notifier releases the mutex *before* it reads the slot, so posts tear and
  overwrite what it reads;
* the vector, the table and the announcement are three separate steps;
* nothing keeps a user from logging in twice, and lookups by name take the first
  match while a quit erases every match;
* the server loses the vector in a restart and the table keeps its rows;
* `login_time`, in seconds, serves as the key of a row;
* reader buffers, vectors and the MySQL connection are shared without locks;
* clients stall, die without a quit, and share a port file.

* a call is not told from its failure: the end of a connection, a reset, a
  refused connection and a pipe that is broken all go on as if something had been
  read or connected, and SIGPIPE, which nobody handles, ends a program;
* two lookups of a user's friends go different ways; ids stay unassigned;
* the client prints relative to where the cursor should be, from two threads.

`PROJECT.json` lists each hazard at its line, with the properties that cover it.

### What makes each component correct

* Hand-off: no lost wakeup; a disturbed round is always followed by a full round
  of the newer post, unless it ends the server; an undisturbed round is exact; everything settles.
* Sessions: vector, table and announcements agree; a message goes to the client
  that is logged in; closed rows stay closed.
* Ports: clients running together listen on different ports.
* Requests: request and answer alternate; every wait ends; the server survives
  whatever clients do short of what `DeathCauses` names.
* Accounts: a list has the right friends; a notice reaches every list that shows
  its user; a text reaches the friend it is for, unchanged.
* Windows: the window is always a slice of the list; indices stay inside; a state
  notice is not undone by scrolling.
* Screens: each is printed in its place, and nothing of the one before is left.
* Line reader: the bytes of a line come from one connection, in order, once.

## 2. Modules

| Module | Models | Uses |
|---|---|---|
| `NotifyChannel` | the hand-off: handlers and notifier, step by step | `Outbox` |
| `Outbox` | what the hand-off promises (abstract) | |
| `MCNotifyChannel` | instances of `NotifyChannel` for TLC | `NotifyChannel` |
| `NotifyChannelProofs` | the inductive invariant and the theorems | `NotifyChannel`, `TLAPS` |
| `Sessions` | login vector, `login_info`, announcements, restarts | |
| `MCSessions` | instances of `Sessions` for TLC | `Sessions` |
| `SessionsProofs` | the invariant of a user whose logins do not overlap, and the theorems | `Sessions`, `TLAPS` |
| `Pager` | what a window over a list promises (abstract) | |
| `TalkWindow` | the client's window over the messages | `Pager` |
| `ScreenProofs` | the invariants of the two positions and of the terminal, and the theorems | `Screen`, `TLAPS` |
| `FriendWindow` | the window over the friends: scrolling against state notices | `Pager` |
| `FriendWindowProofs` | the invariants of the two threads and the theorems | `FriendWindow`, `TLAPS` |
| `PortFile` | `c_port` in `config.ini`, read, bound and restored by several clients | |
| `PortFileProofs` | the invariants "running clients are a stack" and of the text of the file, and the theorems | `ConfigFile`, `TLAPS` |
| `ConfigFile` | the text of `config.ini`, written over in place | `PortFile` |
| `LineReader` | `Readline`: threads that share one static buffer | |
| `LineReaderProofs` | the invariant of a buffer that one thread works on and the theorems | `LineReader`, `TLAPS` |
| `Tcp` | one connection: what each socket call returns at each end | |
| `TalkService` | clients, connections, handlers, notifier, sessions together | `Tcp` |
| `TalkServiceProofs` | the invariant that follows each request and each address, and the theorems | `TalkService`, `TLAPS` |
| `MCTalkService` | instances of `TalkService` for TLC | `TalkService` |
| `Messages` | each message as it is put together and taken apart | |
| `Accounts` | accounts, friendships, lists, states and texts through the messages | `Messages` |
| `MCAccounts` | instances of `Accounts` for TLC | `Accounts` |
| `AccountsProofs` | what the messages carry, what the scans find, the invariant and the theorems | `Accounts`, `TLAPS` |
| `Screen` | the client's terminal: every screen, the cursor, both threads | `TalkWindow` |

Modules without an `MC` companion are small enough for their configurations to
give every constant a number or a set of model values.

### NotifyChannel

State: `is_send_client` and `notify_type` are the fields of `ctrl_sc`; `payload`
holds `us_change` (under the key `online_state`) and `s_msg` (under `message`);
`state_mutex` names its owner. Each handler has a program counter `hpc` and the
post it is making, `req`; the notifier has `npc` and the locals of its round.
`last` and `sent` are history: the last post whose fields are all written, and
which of its notices have been written to a client since.

| Action | Code |
|---|---|
| `Request` | a request that will post: parsing, table updates (module `Sessions`) |
| `Raise`, `WriteType`, `WriteUser`, `WriteBody`, `SignalUnlock` | lock and flag; type; name; state or text; signal and unlock |
| `Acquire`, `Park`, `SpuriousWakeup`, `Take` | lock, `Pthread_cond_wait`, its return, flag cleared and unlock |
| `ReadType`, `Lookup` | the `switch`; name read and looked up |
| `NextClient`, `ReadUser`, `ReadBody`, `SendNotice`, `Answered` | one call of `deal_state_notify` or `deal_send_msg` |
| `SendToNobody` | `deal_notify` with an empty address: SIGPIPE, the end of the server |

Lock and flag are one step, and so are clearing the flag and the unlock, because
nobody looks at the flag without the mutex. Every access to the other fields is
a step, because the notifier reads them without the mutex. A read of a string
while a handler is assigning it may give the old value, the new one or one of
`Torn`, which is `{Garbled}`, or empty where a run asks what happens without that; an
enum gives the old or the new one. The arguments of
`deal_state_notify` are evaluated in any order. A name that nobody has makes
`get_userid_by_username` return an indeterminate id: any user's friends, or
nobody's, may be told (`Audiences`). With a message it leaves the address empty, and
`deal_send_msg` is called all the same: the write to a socket that is not connected raises
SIGPIPE, and `Ended` holds for ever. That takes a message whose type is in the slot and whose
name is not there yet, or not whole, when the notifier reads it: another post must have raised the flag
since the notifier cleared it (`UndisturbedExact`). `Friends` is constant and everyone is
logged in: the tables are the matter of `Sessions`, and a message to someone who is not
logged in that of `TalkService`. A client that is called is assumed to answer.

### Sessions

State: `sessions` is `g_vecTableLogin`, `rows` the table `login_info`,
`registered` the names of `g_vecTableUSer`. The vector is a set whose elements
carry the number of their login: `push_back` and `erase` keep the vector in that
order, so "first match" is "least number". Each connection's handler is at
`ready`, `store` (vector changed, database not) or `announce`. `me` is what the
client believes. `announced` is the state last posted for a user. `overlapped` are the
users whose logins overlapped (a login or a request while another
client of the same user had a session or a request in progress) or fell in the
second of an earlier login, and `failed` those who met a failed statement or a restart.
`Reachable` and `HistoryKept` leave out the former only: they hold whatever
statements fail and over restarts. `Consistent` needs both.

| Action | Code |
|---|---|
| `Connect`, `Die`, `QuitNameless` | accept; a killed client; quit with "none" |
| `Register`, `Login`, `ChangeState`, `Quit` | the vector part of the request |
| `InsertRow`, `UpdateRows`, `StoreFails` | the SQL statement |
| `Announce` | the post and the reply |
| `Restart`, `Tick` | server restart; a second passes |

The INSERT of `insert_user_info` is malformed (no quotes, no closing
parenthesis), so no registration outlives the server; the ids of users
registered since the start are indeterminate, so the foreign key of
`login_info` may reject the row of their login (`StoreFails`). A rejected login changes nothing
and is no action. After a client is killed, its handler spins in the loop of
`deal_msg`; what that means for connections is in `TalkService`.

### TalkWindow and Pager

State: `size` is `message_lists.size()`, `rows` is `print_talk_lists`, `up` and
`down` the two positions, `open` is `g_interface_talk`. A message is its position
in the list. `reopened` is history: the window was opened on earlier messages.

| Action | Code |
|---|---|
| `Open`, `Close` | `init_talk_lists`; `quit` |
| `Receive`, `Send` | `recvmsg_from_server`, `get_send_msg`: `push_back`, then `talk_lists_down(true)` |
| `ScrollDown`, `ScrollUp` | `talk_lists_down(false)`, `talk_lists_up` |

`Pager` says what such a window promises: its rows are a stretch of
consecutive entries of a list that only grows, moved by one row at a time. The
talk window implements it (`PagerSteps`) until it is opened on messages that are already
there: `init_talk_lists` sets `down` to the *last* message, where the other calls
expect the next one's position, so afterwards a row may be one message early. What
survives a reopening is `IndexSafe`, `Ordered` and `EndShowsNewest`.
Each call is one step. Overlaps of the listener's call with the command thread's
on the unlocked vector are not modelled (section 5); that the calls take turns in
any order is, here and in `Screen`.

### FriendWindow

State: `listed` is `f_lists`; `names` and `states` are the fields of
`print_f_lists`. The command thread copies row by row, a name and then a state
(`op`, `row`, `named`); the listener thread scans the rows for a name and then
writes a state (`about`, `told`, `at`, `found`).

| Action | Code |
|---|---|
| `GetFriendList` | the answer of the server after the login |
| `StartInit`, `StartDown`, `StartUp` | `init_friend_lists`, `friend_lists_down`, `friend_lists_up` up to the loop |
| `CopyName`, `CopyState` | one field of one row; the last state is followed by `Finish` |
| `Notice`, `Compare`, `Modify` | `deal_noyify`, and the loop of `modify_friend_state` |

The listener never changes `f_lists`, so scrolling brings back the state of the
login; and what a notice writes may be overwritten, or land in the row of another
friend, while the rows move. `RowsCurrent` says exactly which state a row shows
nevertheless. `actual` is the state told last, `outdated` the friends who came on
the screen with an older one, `suspect` those whose row a notice may have met in
motion (all friends, as soon as the two threads overlap; an undisturbed `Modify`,
or coming on the screen again undisturbed, takes a friend out), and `calm` whether
the current operations began without an overlap. The names are a `Pager` whatever the notices
do (`PagerSpec`). A name and a state are written whole: a
torn string or enum is undefined behaviour and not modelled.

### PortFile

State: `c_port` is the number in `config.ini`, `mine` a process's copy,
`listener` the outcome of its `bind`, `lingering` the ports that TCP still holds
after a client ended.

| Action | Code |
|---|---|
| `Read`, `Write` | `read_client_data`: the number read, the next one written |
| `Bind` | `thread_main`: the listener's `bind`, which may fail and is only logged |
| `Restore`, `Leave` | `restore_client_data`, then the end of the process |
| `Kill`, `Expire` | a killed client; the end of `TIME_WAIT` |

`htons` keeps the low 16 bits of a number: `Wire` is the remainder modulo
`PortSpace`. `disorder` is history: a start overlapped with another start or with an exit,
or a client ended before one that started later. Only without it are the
ports distinct (`Distinct`) and the file restored (`Restored`); a killed client
(`killed`) only loses a number. `InRange` holds in any case. 

`ConfigFile` runs the same steps on the text of the file: `IniWriteValue` finds
the line of a key and writes the new line over it in place. The numbers grow by
one for each start, so a number of one more digit takes the newline, for which
the file keeps an empty line, and one of two more digits takes the `S` of
`S_IP` (`SettingsKept` says up to where it is harmless); `ReadsBack` says that
`PortFile` may treat the file as a number. The radix is a constant, so that
numbers can gain digits within a few starts.

### LineReader

State: `read_buf`, `read_cnt` and `read_ptr` are the statics; `line` is what a
call of `readline` has stored and `ret` how it ended. A thread is named like the
connection it reads. A byte is its connection and its place there, so a byte of
the wrong connection, a repeated one and a lost one can be told apart; a newline
is every `LineLength`-th byte.

| Action | Code |
|---|---|
| `Call` | the loop of `deal_msg` calls again, after a line, the end or an error |
| `Test` | `read_cnt <= 0`? |
| `Fill`, `FillNothing` | `read()`: some of the bytes there; nothing, at the end or after a reset |
| `Count`, `Check`, `Point` | `read_cnt` assigned; read again and compared; `read_ptr` reset |
| `Take`, `Fetch` | `read_cnt--`; the byte stored, the line ended by a newline or a full array |
| `Arrive`, `Shut` | the other end (external) |

`crossed` records that a thread has looked at bytes that another thread read, or
has read while another had bytes left or was using them. Until then the sharing
is harmless, and that is what the properties state: they hold for several
threads in turn, with any splitting into reads, but not beyond the first
crossing, which `Test` and `Fill` can make at any time since nothing is locked. After
it a thread can return bytes of another connection, lose bytes, or report an end
of file that is not one.

### Tcp and TalkService

`Tcp` is the one account of what the socket calls return; each end of a
connection is `open`, or has been told of the other's close (`eof`), of a close
that left something unread (`reset`), has used that up (`shut`), or is `closed`.
A line to a closed end is lost and answered by a reset; `writen` raises SIGPIPE
on a connection that is `shut`; `Readline` returns 0 at the end, and -1 once after a reset.

`TalkService` composes both programs over it. State of the server: `sessions`
(`g_vecTableLogin`, in order), `post` (the slot: flag, type, and the names in `us_change` and
`s_msg`), the post the notifier has `taken` but not looked up, its `round` and
`call`, and for each connection its handler (`thread`) and the line it read last
(`msg_recv`). A handler at `name` holds `state_mutex`. State of a client: `pc` (its screen, or `wait`), `user`, `mate`,
`listed` (the friends in its list), `req`, `port`. `ended`, `astray` and `leaked` are history:
how processes ended, whether a message found no address (its user had no session, or its name was being
assigned), and sockets that are never closed.

| Action | Code |
|---|---|
| `Start`, `Gone`, `Kill` | `main`; the end of a process, with the call it may be answering |
| `Register`, `Login`, `Enter`, `Modify`, `Send`, `QuitMain`, `QuitFriends` | a command and its request, up to `Readline` |
| `OpenTalk`, `CloseTalk` | the talk screen, which needs no request |
| `Return`, `Leave` | `Readline` returns; the next screen, or the end of the process |
| `Hear`, `Acknowledge` | the listener's `deal_noyify` |
| `Accept`, `ReadRequest`, `ReadStale` | the accept loop; the loop of `deal_msg` |
| `ExecuteQuery`, `ExecuteList`, `ExecuteLogin`, `ExecuteQuit`, `Answer` | the `switch` of `deal_msg`, with what changes or reads the vector |
| `Raise`, `Name` | a post: mutex, flag and type; the name, signal and unlock |
| `Take`, `ReadType`, `LookUp` | `notify_client`: flag cleared under the mutex; then, without it, the type read, and the name read and looked up |
| `Dial`, `SendNotice`, `ReadReply` | `deal_notify` |
| `Stop` | the server is ended |

It is coarser than the parts it composes: a change or a lookup of the vector is a step, and the
database is left out (`Sessions`); a post has no state and no text, and flag and type are raised together
(`NotifyChannel` has them apart, which makes no difference to what can be read: the flag is only
looked at under the mutex); lines do not cross (`LineReader`) and running clients have
different ports (`PortFile`). The name of a post is a step of its own, since it is there
that two posts can be taken for one: a lookup while it is being assigned may give the
old name, the new one or one that is nobody's (`NameReads`). What the parts show is thereby assumed here, and
where a part's property has a condition (no crossing, no disorder), so has this.
The read of a client's connection at its end, which spins without effect, is no step: the thread
stays at `read`. After a reset `Readline` returns -1, which is not 0, and the
request before is executed again (`ReadStale`) and answered into a connection
that is `shut`: one client killed between its request and the answer can end the
server. So can a message to a friend who is not logged in, a message that is looked up
between the assignments of its post, with the name empty or half there, and a client that
has quit while the notifier was on its way to it. `DeathCauses` says that in the model nothing
else does. A list that is asked for without a session, after another client's quit has erased it, has
anyone's friends (`ListsOf`), so a message may be sent to someone who is not a friend.

### Messages and Accounts

`Messages` has each line as a sequence of words, numbers and separators, and each
function that puts one together or takes one apart, under its own name. What a
user types may contain separators. `Accounts` runs the requests through them:
what is typed, serialised, parsed, looked up, answered, parsed again and shown is
one step, notices included.

State: `users` (`g_vecTableUSer`), `logins` (`g_vecTableLogin`), and for each
client `me`, `f_lists` and what its listener heard last. `posted`, `guessed` and `odd` are history.

| Action | Code |
|---|---|
| `Register` | `register_info`: an account whose id is never assigned |
| `LogIn` | `is_login_success`, `login`, and the notice of the state |
| `get_friend_list` | the list, and the states looked up by an id never assigned |
| `Modify` | `friend_lists_modify`, `change_user_state`, and the notice |
| `Send` | `is_user_exist`, `get_send_msg`, `sendmsg_to_friend`, and the notice |
| `Quit` | `friend_lists_quit`, `client_quit`, and the notice |

Uninitialised numbers take any value of `Garbage`, which contains an id in use
and one that is not. The tables are read at the start (`init_tbl_friend` and the
others) and `friend_info` never changes. `guessed` are the clients whose list was
asked for without a session, after another client's quit had erased theirs; `odd`
says that a name or password with a separator, or an unknown state word, was typed: the
server then reads another name, port or state than was meant (of `Bob;pw` typed as a name,
`update_login_state` gets `atoi("pw;...")`). `Only` stands for the loops that collect or erase
the matching elements of a vector.

`ListRight`, `TextsArrive` and `NoticesReachLists` are about the accounts the server started
with, when no two accounts have a name or number in common and no stored name has a separator in
it (`PlainNames`: nothing in the code or in `sql/` forbids one, and it would cut a friend's entry
in two). `NoticesReachLists` leaves out a user who is his own friend: `friend_info` does not forbid
it, but the session that such a user's list would need is the one that has just begun or ended.

### Screen

`Screen` extends `TalkWindow` with the terminal: `tty` is the row of the cursor,
the rows with something of the program on them, and the topmost row it ever
changed; `screen` and `top` are the frame printed last and its first row; `pc` what
the command thread waits for. What a thread prints between two waits is one step,
and the listener's steps (`Notice`, `Hear`) may fall at any wait. A fill writes ten rows from
eleven above the cursor, and for a talk the friend's name thirteen above it; before that a message
that is heard erases at the cursor, whatever screen is shown (`Wiped`: all of the row, or the part right
of where a short message ends). Rows are counted
from the one on which the program starts.

| Action | Code |
|---|---|
| `OpenForm`, `FillForm`, `Registered`, `LeaveForm` | `register`, `print_register` |
| `OpenLogin`, `get_login_data`, `LoggedIn`, `Refused`, `Granted`, `Listed` | `deal_login_data`, `deal_friend_list` |
| `help_cmd`, `Helped`, `deal_error_cmd`, `Erred`, `Nothing`, `Quit`, `Done` | commands of more than one screen |
| `FriendKey`, `ModifyState`, `get_user_state`, `Modified`, `OpenTalk` | the friend screen |
| `TalkKey`, `OpenText`, `SendLine`, `Sent`, `CloseText`, `CloseTalk` | the talk screen |
| `Notice`, `Hear` | `modify_friend_state`, `recvmsg_from_server` |

Four steps displace the frame, because the code moves the cursor once too often
or not often enough: leaving the registration form and a refused login clear
nine rows more than were printed (and erase what stood above the
program), commands that do nothing leave the cursor a row lower, and a list that
is not answered leaves the friend screen behind. `stray` records them, and each
property says which of them it survives. Each of them can be repeated and would
make the rows unbounded: `MaxStrays` bounds their number.

## 3. Runs

| Run | Instance | Shows |
|---|---|---|
| `notify` | 2 handlers, 2 users (one listed as a friend of its own), 2 states, 1 text | `TypeOK`, `NoLostWakeup`, `LatestDelivered`, `UndisturbedExact`; `OutboxSpec`: implements `Outbox`; `Settles` |
| `notify_stranger` | 2 handlers, 3 users, states only, strings read whole | violates `ToldAboutFriends`: friends of one user told about another |
| `sessions` | 2 clients, 2 users who register, 3 logins, 2 seconds, failing statements, 1 restart | `TypeOK`, `Consistent`, `Reachable`, `HistoryKept` |
| `sessions_stale_row` | 2 clients, 1 user, nothing fails | violates `QuitClearsDatabase`: the UPDATE of a quit that erased two sessions misses the row of the earlier login |
| `talk_service` | 2 terminals, 2 processes, 2 users who are friends, 2 ports, everything typed | `TypeOK`, `Lockstep`, `DeathCauses`, `SessionsOwned`, `RightReader`, `LeakBound` |
| `talk_liveness` | the same with 1 port, a friendship of one side, and only logins, messages and quits typed | `Answered`, `RoundsEnd` |
| `accounts` | 3 accounts and a fourth that registers, 2 clients, names and texts with separators | `TypeOK`, `ListRight`, `TextsArrive`, `NoticesReachLists` |
| `accounts_presence` | the same | violates `ListShowsPresence` |
| `screen` | 3 rows of talk, 8 messages, 1 displacement | `TalkWindow`'s `IndexSafe`, `Ordered`, `EndShowsNewest`, `PagerSteps`; `ScreenTypeOK`, `Placed`, `ErasesOwn`, `FillsFit` |
| `friend_window` | 2 rows, up to 3 friends, 2 states | `IndexSafe` (with the types), `RowsCurrent`, `PagerSpec` |
| `port_file` | 3 clients, 4 starts, first port 1 of 3, numbers in base 2 | `Distinct`, `Restored`, `ReadsBack`, `SettingsKept` |
| `line_reader` | 2 threads, 3 bytes each, lines of 3, buffer of 2, 2 bytes per call | `TypeOK`, `OwnBytes`, `BytesDelivered` |

**Bounds.** Two handlers are enough for one post to overwrite another, or to tear
it, while the notifier is at any of its steps; a third adds only a third
overwriting, and the proofs cover any number. In `notify` a round of one user makes two
calls (so a post can fall between them) and one of the other a single call; in
`notify_stranger` three users give a round without any call as well.
The hand-off has no counters. In `Sessions`, `MaxLogins = 3`
lets a user overlap with itself and log in again afterwards, or two users
interleave with a relogin of one; `MaxTime = 2` gives logins in the same second and in
different ones; one restart separates logins before and after. In `TalkService`, two processes
are one to send and one to receive, or one after the other at the same terminal, port and user;
with a single port (`talk_liveness`) the second process always inherits what the
first has left at its address. `ACTION_CONSTRAINT OneKill` leaves out a `Kill` after a `Kill` (ends by quit and
by SIGPIPE remain): with two processes it would only end the last one. No fairness speaks of `Kill`, so
the constraint takes no step that `FairSpec` asks for. In `talk_liveness`, `Typed` bounds what is typed: logins, messages and quits
give posts of both types, calls to running and ended clients, handlers that queue for the
mutex, and requests with and without an answer; the others wait and are answered as these are. `Accounts` has every kind of account that matters: with friends and without,
with a digit 0 in its number, registered since the start with an id that is another's or nobody's.
Clients, users and ports are interchangeable in `sessions` and `talk_service`
(symmetry); the temporal runs use none. The windows have no state but positions: eight messages over
three rows give a window that is not full, full, and scrolled by more than its
height, with reopenings between; three friends over two rows leave one outside at
either end. Three clients and four starts give a restart while two others run,
numbers that leave the port space wrap, and with base 2 they grow from one digit to three. One
displacement of the screen shows what it does to everything after it; a second
only adds to the distance. Three bytes over a
buffer of two and calls that store two give lines split over reads, reads that
span two calls, and a line cut by the size of the array. `line_reader` follows no
state after a crossing (`CONSTRAINT Uncrossed`), where its properties claim nothing: `crossed` never becomes false
again, so the constraint cuts off no behaviour that `BytesDelivered` speaks of.

**Deadlock** is checked in every run but `notify`, where a write to nobody ends the server, and `port_file`, `talk_service`,
`talk_liveness`, `accounts` and `screen`, where clients may stop for good: the starts or
logins are used up, nothing can be typed any more, or the program has ended. In `NotifyChannel` requests and
spurious wakeups keep some step enabled until then, so it says little; that nobody
waits for ever is `Settles`.

**Fairness.** `FairSpec` asks weak fairness of each handler and of the notifier: a
thread that can take a step eventually does. Nothing is asked of `Request` and
`SpuriousWakeup`. Weak fairness does not give a thread a mutex that others keep
taking, so `Settles` is about behaviours in which requests and
spurious wakeups stop (`Quiet`). `TalkService` asks weak fairness of the notifier, of a client's
wait for an answer and of its listener, strong fairness of each handler, and nothing of what users do, of kills
and of `Stop`. The strong fairness is about `state_mutex`, at which a handler waits in `Raise`: it
is free again and again, since whoever holds it unlocks it after two assignments, and a thread queued in
`pthread_mutex_lock` is taken to get it some time. POSIX promises no order among those who
wait, so this is an assumption about the scheduler; the clients wait for their
answers before they ask again, so only as many handlers as there are clients compete. As for clients: a client that is stopped without ending, and never answers, would
stop the notifier for ever, and the fairness of `Listen` excludes it. `accounts_presence`
asks only that a client that has logged in does ask for its list. In
`LineReader`, `FairSpec` asks the same of each thread, a `read()` that can return
included, and nothing of the other ends: bytes need not come, and connections need not close.

**Violations** are disagreements between the code and its comments; each is in
`PROJECT.json` under `findings`, with the comment. Other consequences the models
show, where no comment says otherwise: a quit whose post is overwritten in the
slot is never told; a second login of the same user is accepted, and the quit of
either client erases the session of both; a killed client leaves its session and
a spinning thread; a session left at a port is taken over by the next process
there; a friend whose number contains a 0 cannot be talked to; rows above the
program are erased after a registration or a refused login.

**Mutants.** Definitions introduced by "Mutant:" in the modules are variants of the
definition that follows, each with a plausible slip (a forgotten signal, a
missing where clause); `PROJECT.json` names the property that catches each.

## 4. Proofs

`NotifyChannelProofs` proves, from the assumptions `Friending` (friendships are
among users), `Threads` (the notifier and "no one" are not handlers) and `Marks`
("no post" is not a post), for any number of handlers, users, states and texts:

| Theorem | Property |
|---|---|
| `TypeCorrect` | `TypeOK` |
| `WakeupSafe` | `NoLostWakeup` |
| `LatestWins` | `LatestDelivered` |
| `UndisturbedRounds` | `UndisturbedExact` |
| `ImplementsOutbox` | `OutboxSpec` |

`LatestDelivered` is not inductive: that a parked notifier has delivered the
last post depends on what each step of its round read from the slot, and on
nobody having written in between. The inductive invariant `IInv` adds who holds
the mutex and where (`MutexInv`), that a handler holding it has raised the flag
(`FlagInv`), that the slot holds the last complete post up to the fields being
written (`SlotInv`), and, *while the flag is down*, how far the round has come
(`RoundInv`). The condition carries the argument: a post raises the flag before it writes
anything, so once a round can be torn, nothing is claimed about it until the
next `Take`, and `Take` finds a complete post. TLC checked `IInv` on a small
instance before it was proved.

`SessionsProofs` proves, from `Enumeration` (ONLINE and OFFLINE are states) and
`Registered` (the names in `user_info` are users), whatever the bounds:

| Theorem | Property |
|---|---|
| `TypeCorrect` | `TypeOK` |
| `TablesAgree` | `Consistent` |
| `MessagesArrive` | `Reachable` |
| `ClosedRowsStay` | `HistoryKept` |

The properties say nothing of a user who is being served, so they are not
inductive. The invariant `IInv` says for each user whose logins have not overlapped, in
`CalmInv`, what holds in the middle of a request: at most one session and one
handler at work; what that handler has done to the vector (`JobInv`); that `login_time` is a key among the user's
rows (`TimeKey`), on which the `UPDATE` depends; and, unless the user is in `failed`, which row the handler
still has to write (`RowInv`) and what was announced (`ToldInv`). The former give `Reachable` and `HistoryKept`,
which therefore survive failing statements and restarts. `Frame` is the lemma that makes
the proof short: a step that leaves a user's sessions, rows, announcement and
requests alone keeps `CalmInv`, so each action is examined for one user only.

`ScreenProofs` proves first of the talk window, from `Space` (there is a row), for any number of rows
and messages:

| Theorem | Property |
|---|---|
| `TypeCorrect` | `TypeOK` |
| `IndicesSafe` | `IndexSafe` |
| `FirstWindow` | `Consecutive` |
| `RowsOrdered` | `Ordered` |
| `EndIsNewest` | `EndShowsNewest` |
| `StepsOfPager` | `PagerSteps` |

What the rows show is not enough to know that a step is safe: the invariant adds how far
the two positions may be apart (`SpanInv`), that every row holds the message of
its place or the one before (`PlaceInv`), and that neither slack exists before a
reopening (`FirstInv`).

Then it proves of the screen the window is part of, for every order of commands, answers and
notices:

| Theorem | Property |
|---|---|
| `ScreenIsTalkWindow` | `Spec` of `TalkWindow`: the theorems above hold of the screen |
| `ScreenTypeCorrect` | `ScreenTypeOK` |
| `CursorPlaced` | `Placed` |
| `OwnRowsErased` | `ErasesOwn` |
| `FramesFilled` | `FillsFit` |

The code never knows where the cursor is; it counts on what it printed before. The invariant
(`FrontInv`) says it for every place at which the program waits: `Below` and `Trail` give the
distance of the cursor and of the last written row from the frame, and `StandsInv` states with
`Stands` that the terminal is that. `Stands` has the history as a parameter, because a command that
does nothing leaves the cursor lower for good, and a list that is not answered leaves rows
behind. There is a lemma on `Stands` for each thing that is printed (`LineStands`, `TextStands`,
`MoveStands`, `BackStands`, `WipedStands`, `ClearStands`, `PrintedStands`, `FilledStands`), so a step is proved by going
through what it prints in order. A message that is heard while the cursor stands on a printed row, of the form, at the
name or the password, or in the text of help, erases that row, and what is typed or printed there next covers it;
so `StandsInv` speaks of the terminal with that row put back (`Mended`), and `ThenMended` and `WipedStands` say that
going on from there, or erasing once more, loses nothing else. `RoomInv` is what `ErasesOwn` needs: the main screen that
follows an unanswered list has eight rows above it that a clear may take.

`FriendWindowProofs` proves, from `Space`, `Bound` and `Empty` (there is a row and a
friend, and the state of an empty row is not one of theirs), for any number of rows and friends:

| Theorem | Property |
|---|---|
| `InsideTheList` | `IndexSafe` |
| `ShowsStretch` | `PagerSpec` (the refinement of `Pager`) |
| `StatesShown` | `RowsCurrent` |

The first invariant is about the names and positions only, which the listener
does not touch (`ListenerStep`): `PosInv` relates the positions to the loop that
is running, and `RowInv` says what is in each row on either side of the loop
variable (`Copied`). With it every step of `Pager` is the last step of a loop.
The second one adds the states. `Owner` says whose state a row holds between
the copy of a name and the copy of its state; `StateInv` claims the shown state
of every owner but the suspects and the one the listener is looking for;
`ScanInv` says what a scan that nothing disturbs has found out, and `CalmInv`
that after a disturbance all friends are suspects, so nothing is claimed.
At rest a friend is in one row at most (`OneRow`): that is why ending the scan at
the first match is enough.

`LineReaderProofs` proves, from `Names`, `Sizes` and `Bound` (every size is positive, and a line
has room for a byte and the null), for any number of threads:

| Theorem | Property |
|---|---|
| `TypeCorrect` | `TypeOK` (a line fits its array, crossed or not) |
| `LinesOwn` | `OwnBytes` |

Before a crossing one thread at most works on the buffer, the one that filled it
(`OneInv`), and `AheadInv` accounts for its bytes: those taken from the kernel are in lines
(`Total`) or still ahead in the buffer (`Ahead`, beginning at `From`), where they are
the next ones of its connection. Every step but `Call`, `Fill` and `Fetch` moves the
positions and leaves that account alone (`Moving`).

`PortFileProofs` proves, from `FirstPort` and `Width` (the first port is positive and fits), for any
number of clients and starts:

| Theorem | Property |
|---|---|
| `TypeCorrect` | `TypeOK` |
| `NumbersInRange` | `InRange` |
| `DistinctPorts` | `Distinct` |
| `FileRestored` | `Restored` |

Without disorder the running clients are a stack (`StackInv`): later starts have
greater numbers, and the file holds a greater one still, except while the top
client starts or ends. Without a kill there are no gaps (`DenseInv`), which gives
`Restored`.

Of the text of `config.ini` it proves, from `Numerals` (the radix is at least 2) too, for
numbers of any length:

| Theorem | Property |
|---|---|
| `FileIsPortFile` | `Spec` of `PortFile`: the theorems above hold of the text |
| `LastNumberRead` | `ReadsBack` |
| `SettingsReadable` | `SettingsKept` |

`ReadsBack` needs two things. `atoi` inverts `%d` (`ValueOfNumeral`), and the number ends
where it should: a shorter number leaves the end of a longer one, and of the lines it ran over, behind its
newline, where nothing may look like the key (`TextOf`). `LinesBehind` gives the rest of the file
its places, which a number keeps as long as it is at most one digit longer than the first
(`WrittenBehind`); that no number written by then is longer follows from `InRange`, since greater
numbers are not shorter (`LongerNumeral`). `Numeral` and the value of a text are recursive
functions; what they compute is proved for all numbers by induction over the set
of the numbers for which it holds (`SetInduction`, from the well-foundedness of `<`), as it cannot be
by an induction theorem that takes a predicate.

`TalkServiceProofs` proves, from `Friending` (friendships are among users) and
`Outside` ("no name, no port" is neither), for any number of terminals, users,
ports and processes:

| Theorem | Property |
|---|---|
| `TypeCorrect` | `TypeOK` |
| `InStep` | `Lockstep` |
| `Causes` | `DeathCauses` |
| `Owners` | `SessionsOwned` |
| `RightCalls` | `RightReader` |
| `SocketBound` | `LeakBound` |

None of the last five is inductive. Each depends on what the two ends of a
connection know of one another, which `LinkOK` states, with lemmas about reading, writing and
closing (`Reading`, `Writing`, `ClosedLink`). On that rests `ClientInv`: a request
of a running client is in exactly one of five places (`Resting`, `Sent`, `Served`,
`Replied`, `Dismissed`), with the outcome its answer can have, and the name
on the client's screen fits it (`NameInv`). It gives `Lockstep`, and that a handler
meets a pipe that is broken only after a kill. `OwnInv` says which client owns a
session, the one that is waiting for the answer to its login included, and
`TargetInv` whom an address in the vector, in a round or in a call belongs to. `SlotInv` says
that a message in the slot has a name as soon as no handler is assigning one: a lookup that
finds no address is then one of those that `astray` records, and a
refused connection means that or that a process has ended. Between the erasing of its sessions and the
close of its connection a client that quits owns none (`Parting`), since its post is two steps more. `LeakInv` counts a call to a process that has ended as a socket
already owed (`Owed`), because it is lost a step later. `OneClient`,
`OneHandler`, `OneSession` and `OneCall` are the frames: most actions change one
client, its handler, or the call, and only that has to be examined. `Without`, the
sessions a quit leaves, is a recursive function; what it returns is proved by an
induction over the set of the numbers for which it holds (`SetInduction`).

`AccountsProofs` proves, from `Separators` and `Figures` and the assumptions of `Accounts` (ports differ, ids in `user_info` are a key, friendships
are among them, what is typed is text, an address has no `;`), for any number of clients and
accounts and any text that is typed:

| Theorem | Property |
|---|---|
| `TypeCorrect` | `TypeOK` |
| `ListsRight` | `ListRight` |
| `TextsReachFriends` | `TextsArrive` |
| `NoticesTell` | `NoticesReachLists` |
| `ListParsed` | `friend_list_deserialize` inverts `serialize_string` |

The proof goes from the messages to the tables. A field without `;` is cut off as it was put there, and
so is what follows it (`Cut`); whatever the text, what is cut off is text (`CutTexts`). By these a login,
a notice and a message to a friend are read as they were written (`LoginRead`, `NoticeRead`,
`NamedText`). A list has any length, so `ListParsed` counts: the `;` of the text are the ends of
its entries, and the k-th end is where the first k entries end (`WrittenEnds`). A scan with a
`return` in it finds the first match, and `First` is what the proofs know of it; `OnlyProps`
says that removing or collecting elements keeps the first match of everything that is kept.
`ChangedProps` and `GoneProps` are this for a change of state and a quit: the first session of every
other name stays. Each action is then a step on the vectors (`LogInStep`, `ModifyStep`, ...).

None of the properties is inductive. `SafeInv` adds that the accounts
the server started with are still at their places (`UsersInv`); that a session at a
client's port has the name the client is logged in with (`PortInv`), unless a separator was typed; that a
session's number and name are those of one account (`AccountInv`), without which the
answer to a client would be another's list; and that every row of a list is a stored account
(`ListInv`), so that the name a message is sent to is the one its number stands for. Trying
to prove them is what showed that the properties needed `PlainNames`, that a separator in a password
moves the port of the session, and what the end of a name does to a state. The step of
`NoticesReachLists` follows from `RowTold` (whoever has the row is a friend, so his
session is among those found) and from `LogInState`, `ModifyState` and `QuitState`:
the state that changes is the state that is announced.

Only model-checked: `Settles`, `BytesDelivered`, `Answered` and `RoundsEnd` (liveness is out of reach of
the prover), and the violations.

## 5. Not modelled, and the plan

Not modelled:

* overlapping accesses to an unlocked `std::vector`, `std::string` or to the MySQL
  connection: undefined behaviour whose outcomes are arbitrary memory. Each scan, and each call of a
  window, is a step; a line reader's crossing is reached but not followed;
* the columns of the terminal, a terminal too low for a frame (which scrolls), and
  input longer than its array;
* a client that is stopped without ending, which holds the notifier as long as it
  likes, and a connection that breaks without either end closing it;
* wording, logging, the profile of a user, and the SQL server beyond success or
  failure of a statement;
* the wrappers that only log or exit, and the socket wrappers without a caller;
* code that is not built: `server_bak.cpp`, `testMySQL.cpp`, `process_instance.cpp`,
  `keyboard.cpp`, `ftrace.c` and the test programs.

Worth adding: the states of sessions and the texts of messages in `TalkService`, so that what a client
shows could be compared with what the other typed over connections that end.
