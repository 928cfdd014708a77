---------------------------- MODULE Credentials ----------------------------
(***************************************************************************)
(* The credential file and its two kinds of users.  The commands login and *)
(* logout (cmd/freebuff/main.go, internal/oauth/flow.go) are processes of  *)
(* their own that replace or remove the file.  The server reads it twice   *)
(* for every chat call, through a cache of one second (internal/           *)
(* credentials/store.go): EnsureActive loads the credential of the session *)
(* and FreebuffChatService loads it again for the completion.  What Save   *)
(* and Clear drop is the cache of their own process, not the server's.     *)
(***************************************************************************)
EXTENDS Naturals, FiniteSets

CONSTANTS Calls,        \* chat calls in progress at once
          MaxCommands,  \* bound: runs of login and logout
          MaxSeconds,   \* bound: the clock
          StoreWired    \* whether oauth.Flow has its Store

ASSUME CredentialAssumption ==
    MaxCommands \in Nat /\ MaxSeconds \in Nat \ {0} /\ StoreWired \in BOOLEAN

VARIABLES second,    \* clock
          file,      \* credentials.json: the number of a login, or Missing
          cached,    \* the server's credCache: value and time, or NotCached
          call,      \* the server's chat calls
          command,   \* the running command
          issued,    \* commands so far
          upset      \* last second in which file changed, or an older value was cached

credVars == <<second, file, cached, call, command, issued, upset>>

NoFile == 0                       \* no file: every Load fails
Torn == MaxCommands + 1             \* a file that does not decode
Contents == 0..MaxCommands + 1
NotCached == [value |-> 0, at |-> MaxSeconds + 1]
NoCall == [pc |-> "idle"]
NoCommand == [pc |-> "none"]
CallPcs == {"session", "sessionRead", "chat", "chatRead", "done"}
CommandPcs == {"code", "poll", "flowSave", "mainSave", "rename", "chmod",
               "logout", "flowClear", "mainClear", "ended"}

CredTyped ==
    /\ second \in 0..MaxSeconds
    /\ file \in Contents
    /\ cached = NotCached \/ (cached.value \in Contents /\ cached.at \in 0..second)
    /\ \A c \in Calls : call[c] = NoCall \/ call[c].pc \in CallPcs
    /\ command = NoCommand \/ command.pc \in CommandPcs
    /\ issued \in 0..MaxCommands

CredInit ==
    /\ second = 1 /\ upset = 0
    /\ file = NoFile
    /\ cached = NotCached
    /\ call = [c \in Calls |-> NoCall]
    /\ command = NoCommand
    /\ issued = 0

----------------------------------------------------------------------------
(* The server: two Loads per chat call.                                    *)

Hit == cached # NotCached /\ second - cached.at < 1

\* A call that began a second after the last upset, when no Load was still
\* carrying an older value, and that saw no change of the file: it is calm.
Carries(c, v) == call[c] # NoCall /\ call[c].pc \in {"sessionRead", "chatRead"} /\ call[c].seen = v
CalmNow == second > upset /\ \A c \in Calls, v \in Contents : Carries(c, v) => v = file

BeginCall(c) ==
    /\ call[c] = NoCall
    /\ call' = [call EXCEPT ![c] = [pc |-> "session", seen |-> 0, session |-> 0,
                                    used |-> 0, calm |-> CalmNow]]
    /\ UNCHANGED <<second, file, cached, command, issued, upset>>

\* Load has its value: the session's, then the completion's.  A failed Load
\* ends the call.
Returned(q, v) ==
    IF v \in {NoFile, Torn} THEN [q EXCEPT !.pc = "done", !.used = v, !.session = v]
    ELSE IF q.pc \in {"session", "sessionRead"} THEN [q EXCEPT !.pc = "chat", !.session = v]
    ELSE [q EXCEPT !.pc = "done", !.used = v]

LoadHit(c) ==
    /\ call[c] # NoCall /\ call[c].pc \in {"session", "chat"}
    /\ Hit
    /\ call' = [call EXCEPT ![c] = Returned(@, cached.value)]
    /\ UNCHANGED <<second, file, cached, command, issued, upset>>

\* os.ReadFile
LoadRead(c) ==
    /\ call[c] # NoCall /\ call[c].pc \in {"session", "chat"}
    /\ ~Hit
    /\ call' = [call EXCEPT ![c].seen = file,
                            ![c].pc = IF @ = "session" THEN "sessionRead" ELSE "chatRead"]
    /\ UNCHANGED <<second, file, cached, command, issued, upset>>

\* The value or the error is cached as of now, whatever became of the file.
LoadCaches(c) ==
    /\ call[c] # NoCall /\ call[c].pc \in {"sessionRead", "chatRead"}
    /\ cached' = [value |-> call[c].seen, at |-> second]
    /\ upset' = IF call[c].seen = file THEN upset ELSE second
    /\ call' = [call EXCEPT ![c] = Returned(@, @.seen)]
    /\ UNCHANGED <<second, file, command, issued>>

EndCall(c) ==
    /\ call[c] # NoCall /\ call[c].pc = "done"
    /\ call' = [call EXCEPT ![c] = NoCall]
    /\ UNCHANGED <<second, file, cached, command, issued, upset>>

SecondPasses ==
    /\ second < MaxSeconds
    /\ second' = second + 1
    /\ UNCHANGED <<file, cached, call, command, issued, upset>>

----------------------------------------------------------------------------
(* The commands.                                                           *)

Goto(p) == command' = [command EXCEPT !.pc = p]
Fails == command' = [command EXCEPT !.pc = "ended", !.failed = TRUE]

FileBecomes(v) ==
    /\ file' = v
    /\ upset' = second
    /\ call' = [c \in Calls |-> IF call[c] = NoCall THEN NoCall
                                ELSE [call[c] EXCEPT !.calm = FALSE]]

Start(kind, p) ==
    /\ command = NoCommand /\ issued < MaxCommands
    /\ issued' = issued + 1
    /\ command' = [pc |-> p, kind |-> kind, failed |-> FALSE, by |-> "flow"]
    /\ UNCHANGED <<second, file, cached, call, upset>>

RunLogin == Start("login", "code")
RunLogout == Start("logout", "logout")

RequestLoginCode ==
    /\ command.pc = "code"
    /\ Goto("poll") \/ Fails
    /\ UNCHANGED <<second, file, cached, call, issued, upset>>

\* getLoginStatus: the user is still in the browser, or known, or an error, as an
\* empty answer is too.
LoginAnswers == {"pending", "user", "error"}

\* Polls until the user is known, an error, or the limit of five minutes.
PollLoginStatus ==
    /\ command.pc = "poll"
    /\ \E answer \in LoginAnswers :
          \/ answer = "user" /\ Goto("flowSave")
          \/ answer # "user" /\ Fails
    /\ UNCHANGED <<second, file, cached, call, issued, upset>>

\* A call of a nil interface panics: the process is gone.
Panic == command' = [command EXCEPT !.pc = "ended"]

\* Mutant: Save opens the credential file itself and writes to it.
WriteTempInPlace(p, by) ==
    /\ command.pc = p
    /\ command' = [command EXCEPT !.pc = "rename", !.by = by]
    /\ file' = Torn
    /\ UNCHANGED <<second, cached, call, issued, upset>>

\* Save writes a temporary file, which has a name nobody reads, next to the
\* credential file; when that fails it is removed and nothing else has changed ...
WriteTemp(p, by) ==
    /\ command.pc = p
    /\ Fails \/ command' = [command EXCEPT !.pc = "rename", !.by = by]
    /\ UNCHANGED <<second, file, cached, call, issued, upset>>

FlowSave ==
    IF StoreWired THEN WriteTemp("flowSave", "flow")
    ELSE /\ command.pc = "flowSave" /\ Panic
         /\ UNCHANGED <<second, file, cached, call, issued, upset>>

MainSave == WriteTemp("mainSave", "main")

\* ... and renames it into place.
Rename ==
    /\ command.pc = "rename"
    /\ FileBecomes(issued) /\ Goto("chmod")
    /\ UNCHANGED <<second, cached, issued>>

\* The last chmod may fail with the file already replaced.
Chmod ==
    /\ command.pc = "chmod"
    /\ Fails \/ Goto(IF command.by = "flow" THEN "mainSave" ELSE "ended")
    /\ UNCHANGED <<second, file, cached, call, issued, upset>>

\* A failed logout request is only a warning to runLogout, which goes on to clear.
LogoutPost ==
    /\ command.pc = "logout"
    /\ Goto("flowClear") \/ Goto("mainClear")
    /\ UNCHANGED <<second, file, cached, call, issued, upset>>

\* flow.Logout clears, and a failure is only a warning to runLogout again ...
FlowClear ==
    /\ command.pc = "flowClear"
    /\ IF StoreWired
         THEN Goto("mainClear") /\ (FileBecomes(NoFile) \/ UNCHANGED <<file, call, upset>>)
         ELSE Panic /\ UNCHANGED <<file, call, upset>>
    /\ UNCHANGED <<second, cached, issued>>

\* ... which clears once more, and reports when that fails.
MainClear ==
    /\ command.pc = "mainClear"
    /\ \/ FileBecomes(NoFile) /\ Goto("ended")
       \/ Fails /\ UNCHANGED <<file, call, upset>>
    /\ UNCHANGED <<second, cached, issued>>

\* The user interrupts the command, or the machine stops.
Interrupt ==
    /\ command # NoCommand /\ command.pc # "ended"
    /\ Fails
    /\ UNCHANGED <<second, file, cached, call, issued, upset>>

NextCommand ==
    /\ command.pc = "ended"
    /\ command' = NoCommand
    /\ UNCHANGED <<second, file, cached, call, issued, upset>>

CredNext ==
    \/ \E c \in Calls : BeginCall(c) \/ LoadHit(c) \/ LoadRead(c) \/ LoadCaches(c) \/ EndCall(c)
    \/ SecondPasses
    \/ RunLogin \/ RunLogout
    \/ RequestLoginCode \/ PollLoginStatus
    \/ FlowSave \/ MainSave \/ Rename \/ Chmod
    \/ LogoutPost \/ FlowClear \/ MainClear
    \/ Interrupt \/ NextCommand

CredSpec == CredInit /\ [][CredNext]_credVars

\* A chat call that begins a second after the last change of the credential file,
\* and a second after the last Load that was still carrying an older value, uses the
\* file's credential for its session and for its completion, and never a torn one:
\* commands may be interrupted and their writes fail (store.go:53-221,
\* chat_service.go:40-63).
CallsAreCurrent ==
    \A c \in Calls :
        call[c] # NoCall /\ call[c].pc = "done" =>
            /\ call[c].used # Torn
            /\ call[c].calm => call[c].session = file /\ call[c].used = file

\* What the commands tell their user: a login that the user confirmed has stored the
\* credential, a logout has cleared it, unless an error was reported
\* (flow.go:171 "clears the local credential file", main.go:131 "Credentials saved").
CommandsReachTheFile ==
    command.pc = "ended" /\ ~command.failed =>
        file = IF command.kind = "login" THEN issued ELSE NoFile
=============================================================================
