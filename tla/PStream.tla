------------------------------ MODULE PStream ------------------------------
(***************************************************************************)
(* redi::basic_pstreambuf (include/pstream.h) opened for input, as         *)
(* basic_ipstream and ShellCmd use it: a stream buffer that forks a shell  *)
(* command and reads its standard output and standard error through pipes. *)
(*                                                                         *)
(* Several buffers live in one multi-threaded process, so what fork()      *)
(* copies into a child is part of the model: the descriptor table of the   *)
(* parent is one shared variable, and a child keeps every end it inherits  *)
(* (no pipe is opened close-on-exec) except those of its own pipes that    *)
(* fork() closes.  Pipes, descriptors and commands are external: they are  *)
(* modelled from the system calls the code makes.                          *)
(***************************************************************************)
EXTENDS Naturals, FiniteSets

CONSTANTS
  Bufs,       \* the stream buffers alive in the process
  Modes,      \* the modes buffers are opened with
  PipeIds,    \* the pipes the kernel can hand out, lowest free one first
  None,       \* a descriptor variable that holds -1
  PipeCap,    \* characters a pipe holds before write() blocks
  BufSz,      \* characters one read() asks for (bufsz - pbsz)
  Budget,     \* characters a command writes at most
  Closable,   \* the standard streams a command may close while it runs
  MaxOpens    \* how often one buffer is opened

Srcs == {"out", "err"}

\* basic_ipstream's readable() never leaves the mode empty.
ASSUME ConstantsAssumption ==
  /\ Modes \subseteq (SUBSET Srcs) \ {{}}
  /\ PipeIds \subseteq Nat
  /\ None \notin PipeIds
  /\ PipeCap \in Nat \ {0}
  /\ BufSz \in Nat \ {0}
  /\ Budget \in Nat
  /\ Closable \subseteq Srcs
  /\ MaxOpens \in Nat

VARIABLES
  fds,        \* descriptor table of the parent: the pipe ends it has open
  content,    \* number of characters in each pipe
  child,      \* the command each buffer started
  op,         \* the call a buffer is in the middle of ("idle" between calls)
  todo,       \* the streams that call has still to deal with
  mode,       \* the argument of the open() in progress
  pair,       \* fork()'s local arrays pout and perr
  ppid,       \* ppid_: -1 "unset", positive "child", 0 "reaped"
  rpipe,      \* rpipe_[rsrc_out], rpipe_[rsrc_err]
  rsrc,       \* rsrc_, the active source
  error,      \* error_ # 0
  rbuffer,    \* rbuffer_: 0 for NULL, else the open() that allocated it
  area,       \* the get area: the allocation it points into, what is left
  saved,      \* rbufstate_, the get area of the inactive source
  opens       \* how often each buffer has been opened

kernel == <<fds, content, child>>
object == <<op, todo, mode, pair, ppid, rpipe, rsrc, error, rbuffer, area, saved, opens>>
vars   == <<fds, content, child, op, todo, mode, pair, ppid, rpipe, rsrc, error,
            rbuffer, area, saved, opens>>

Ends == PipeIds \X {"rd", "wr"}
Ops  == {"idle", "pipes", "parent", "drop", "wait"}
MaybePipe == PipeIds \cup {None}

NoPipes == [s \in Srcs |-> None]
NullArea == [buf |-> 0, avail |-> 0]
NoChild == [st |-> "none", fds |-> {}, std |-> NoPipes, left |-> 0,
            wrote |-> [s \in Srcs |-> 0]]

-----------------------------------------------------------------------------
(* Pipes and processes.                                                    *)

\* Somebody can still write into p: the parent or a command that holds or
\* inherited the write end.
HasWriter(p) == \/ <<p, "wr">> \in fds
                \/ \E c \in Bufs : <<p, "wr">> \in child[c].fds

HasReader(p) == \/ <<p, "rd">> \in fds
                \/ \E c \in Bufs : <<p, "rd">> \in child[c].fds

PipeFree(p) == ~HasWriter(p) /\ ~HasReader(p)

\* is_open(): a command was started and has not been waited for.
IsOpen(b) == ppid[b] = "child"

Running(c) == child[c].st \in {"run", "out", "err"}

\* exit(), a fatal signal or SIGPIPE: the kernel closes every descriptor.
Dead(c) == [c EXCEPT !.st = "zombie", !.fds = {}, !.std = NoPipes]

-----------------------------------------------------------------------------
Commands == [st : {"none", "run", "out", "err", "zombie"},
             fds : SUBSET Ends, std : [Srcs -> MaybePipe],
             left : 0..Budget, wrote : [Srcs -> 0..Budget]]

TypeOK ==
  /\ fds \in SUBSET Ends
  /\ content \in [PipeIds -> 0..PipeCap]
  /\ child \in [Bufs -> Commands]
  /\ op \in [Bufs -> Ops]
  /\ todo \in [Bufs -> SUBSET Srcs]
  /\ mode \in [Bufs -> SUBSET Srcs]
  /\ pair \in [Bufs -> [Srcs -> MaybePipe]]
  /\ ppid \in [Bufs -> {"unset", "child", "reaped"}]
  /\ rpipe \in [Bufs -> [Srcs -> MaybePipe]]
  /\ rsrc \in [Bufs -> Srcs]
  /\ error \in [Bufs -> BOOLEAN]
  /\ rbuffer \in [Bufs -> [Srcs -> Nat]]
  /\ area \in [Bufs -> [buf : Nat, avail : Nat]]
  /\ saved \in [Bufs -> [buf : Nat, avail : Nat]]
  /\ opens \in [Bufs -> Nat]

\* basic_pstreambuf(): nothing started, init_rbuffers() clears the arrays.
Init ==
  /\ fds = {}
  /\ content = [p \in PipeIds |-> 0]
  /\ child = [b \in Bufs |-> NoChild]
  /\ op = [b \in Bufs |-> "idle"]
  /\ todo = [b \in Bufs |-> {}]
  /\ mode = [b \in Bufs |-> {}]
  /\ pair = [b \in Bufs |-> NoPipes]
  /\ ppid = [b \in Bufs |-> "unset"]
  /\ rpipe = [b \in Bufs |-> NoPipes]
  /\ rsrc = [b \in Bufs |-> "out"]
  /\ error = [b \in Bufs |-> FALSE]
  /\ rbuffer = [b \in Bufs |-> [s \in Srcs |-> 0]]
  /\ area = [b \in Bufs |-> NullArea]
  /\ saved = [b \in Bufs |-> NullArea]
  /\ opens = [b \in Bufs |-> 0]

\* The buffer was destroyed: its members are dead until the constructor runs
\* for the next one, and hold what it will set.
Recycle(b) ==
  /\ op[b] = "idle"
  /\ rpipe[b] = NoPipes
  /\ ~IsOpen(b)
  /\ ppid' = [ppid EXCEPT ![b] = "unset"]
  /\ rsrc' = [rsrc EXCEPT ![b] = "out"]
  /\ error' = [error EXCEPT ![b] = FALSE]
  /\ rbuffer' = [rbuffer EXCEPT ![b] = [s \in Srcs |-> 0]]
  /\ area' = [area EXCEPT ![b] = NullArea]
  /\ saved' = [saved EXCEPT ![b] = NullArea]
  /\ opens' = [opens EXCEPT ![b] = 0]
  /\ UNCHANGED <<kernel, op, todo, mode, pair, rpipe>>

-----------------------------------------------------------------------------
(* open(): fork(mode) creates the pipes, forks and keeps the read ends;    *)
(* create_buffers(mode) activates the get area.                            *)

\* The order in which fork() looks at the streams.
First(S) == IF "out" \in S THEN "out" ELSE "err"

\* open() on a buffer that is not open.  fork() makes no pipe at all while
\* error_ still holds the code of an earlier failure: open() returns NULL.
Open(b, m) ==
  /\ op[b] = "idle"
  /\ ~IsOpen(b)
  /\ ~error[b]
  /\ opens[b] < MaxOpens
  /\ op' = [op EXCEPT ![b] = "pipes"]
  /\ todo' = [todo EXCEPT ![b] = m]
  /\ mode' = [mode EXCEPT ![b] = m]
  /\ opens' = [opens EXCEPT ![b] = @ + 1]
  /\ UNCHANGED <<kernel, pair, ppid, rpipe, rsrc, error, rbuffer, area, saved>>

MakePipe(b, p) ==
  LET s == First(todo[b]) IN
  /\ op[b] = "pipes"
  /\ todo[b] # {}
  /\ PipeFree(p)
  /\ \A q \in PipeIds : PipeFree(q) => p <= q
  /\ fds' = fds \cup {<<p, "rd">>, <<p, "wr">>}
  /\ content' = [content EXCEPT ![p] = 0]
  /\ pair' = [pair EXCEPT ![b][s] = p]
  /\ todo' = [todo EXCEPT ![b] = @ \ {s}]
  /\ UNCHANGED <<child, op, mode, ppid, rpipe, rsrc, error, rbuffer, area, saved, opens>>

PairEnds(b) == {e \in Ends : \E s \in Srcs : pair[b][s] = e[1]}

\* pipe() or ::fork() failed: close_fd_array(fd), and open() returns NULL.
OpenFails(b) ==
  /\ op[b] = "pipes"
  /\ fds' = fds \ PairEnds(b)
  /\ error' = [error EXCEPT ![b] = TRUE]
  /\ pair' = [pair EXCEPT ![b] = NoPipes]
  /\ todo' = [todo EXCEPT ![b] = {}]
  /\ mode' = [mode EXCEPT ![b] = {}]
  /\ op' = [op EXCEPT ![b] = "idle"]
  /\ UNCHANGED <<content, child, ppid, rpipe, rsrc, rbuffer, area, saved, opens>>

\* The child closes its copies of its own pipes but for the write ends it
\* made its standard streams; every other end of the table stays open in it.
ChildFds(b) ==
  (fds \ PairEnds(b)) \cup {e \in PairEnds(b) : e[2] = "wr"}

Fork(b) ==
  /\ op[b] = "pipes"
  /\ todo[b] = {}
  /\ child' = [child EXCEPT ![b] =
                 [st |-> "run", fds |-> ChildFds(b), std |-> pair[b],
                  left |-> Budget, wrote |-> [s \in Srcs |-> 0]]]
  /\ ppid' = [ppid EXCEPT ![b] = "child"]
  /\ op' = [op EXCEPT ![b] = "parent"]
  /\ todo' = [todo EXCEPT ![b] = {s \in Srcs : pair[b][s] # None}]
  /\ UNCHANGED <<fds, content, mode, pair, rpipe, rsrc, error, rbuffer, area, saved, opens>>

\* Mutants of StoreEnd: the write end stays open in the parent; the read end
\* is stored at the other stream's index.
StoreEndKeepsWriter(b) ==
  LET s == First(todo[b]) IN
  /\ op[b] = "parent"
  /\ todo[b] # {}
  /\ rpipe' = [rpipe EXCEPT ![b][s] = pair[b][s]]
  /\ pair' = [pair EXCEPT ![b][s] = None]
  /\ todo' = [todo EXCEPT ![b] = @ \ {s}]
  /\ UNCHANGED <<kernel, op, mode, ppid, rsrc, error, rbuffer, area, saved, opens>>

StoreEndSwapped(b) ==
  LET s == First(todo[b])
      other == IF s = "out" THEN "err" ELSE "out" IN
  /\ op[b] = "parent"
  /\ todo[b] # {}
  /\ rpipe' = [rpipe EXCEPT ![b][other] = pair[b][s]]
  /\ fds' = fds \ {<<pair[b][s], "wr">>}
  /\ pair' = [pair EXCEPT ![b][s] = None]
  /\ todo' = [todo EXCEPT ![b] = @ \ {s}]
  /\ UNCHANGED <<content, child, op, mode, ppid, rsrc, error, rbuffer, area, saved, opens>>

\* The parent keeps one read end and closes the write end.  Another thread
\* may fork between any two of these steps.
StoreEnd(b) ==
  LET s == First(todo[b])
      p == pair[b][s] IN
  /\ op[b] = "parent"
  /\ todo[b] # {}
  /\ rpipe' = [rpipe EXCEPT ![b][s] = p]
  /\ fds' = fds \ {<<p, "wr">>}
  /\ pair' = [pair EXCEPT ![b][s] = None]
  /\ todo' = [todo EXCEPT ![b] = @ \ {s}]
  /\ UNCHANGED <<content, child, op, mode, ppid, rsrc, error, rbuffer, area, saved, opens>>

\* create_buffers(mode): a fresh buffer per stream; the get area is set on
\* the standard output's when there is one.  rbufstate_ is left alone.
CreateBuffers(b) ==
  /\ op[b] = "parent"
  /\ todo[b] = {}
  /\ rbuffer' = [rbuffer EXCEPT ![b] = [s \in Srcs |-> IF s \in mode[b] THEN opens[b] ELSE @[s]]]
  /\ rsrc' = [rsrc EXCEPT ![b] = First(mode[b])]
  /\ area' = [area EXCEPT ![b] = [buf |-> opens[b], avail |-> 0]]
  /\ mode' = [mode EXCEPT ![b] = {}]
  /\ op' = [op EXCEPT ![b] = "idle"]
  /\ UNCHANGED <<kernel, todo, pair, ppid, rpipe, error, saved, opens>>

-----------------------------------------------------------------------------
(* Reading.                                                                *)

\* read_err(): switch_read_buffer() exchanges the get area with rbufstate_.
ReadErr(b, s) ==
  /\ op[b] = "idle"
  /\ rpipe[b][s] # None
  /\ rsrc[b] # s
  /\ area' = [area EXCEPT ![b] = saved[b]]
  /\ saved' = [saved EXCEPT ![b] = area[b]]
  /\ rsrc' = [rsrc EXCEPT ![b] = s]
  /\ UNCHANGED <<kernel, op, todo, mode, pair, ppid, rpipe, error, rbuffer, opens>>

\* One character leaves the get area.
Consume(b) ==
  /\ op[b] = "idle"
  /\ area[b].avail > 0
  /\ area' = [area EXCEPT ![b].avail = @ - 1]
  /\ UNCHANGED <<kernel, op, todo, mode, pair, ppid, rpipe, rsrc, error, rbuffer, saved, opens>>

Source(b) == rpipe[b][rsrc[b]]

\* read() returned characters: setg() on the active source's own buffer.
FillBuffer(b) ==
  LET p == Source(b) IN
  /\ op[b] = "idle"
  /\ area[b].avail = 0
  /\ p # None
  /\ \E n \in 1..BufSz :
       /\ n <= content[p]
       /\ content' = [content EXCEPT ![p] = @ - n]
       /\ area' = [area EXCEPT ![b] = [buf |-> rbuffer[b][rsrc[b]], avail |-> n]]
  /\ UNCHANGED <<fds, child, op, todo, mode, pair, ppid, rpipe, rsrc, error, rbuffer, saved, opens>>

\* read() returned 0, or the pipe is not open: setg(NULL, NULL, NULL).  A
\* blocking read() on an empty pipe returns only when no writer is left.
AtEof(b) ==
  LET p == Source(b) IN
  p # None => content[p] = 0 /\ ~HasWriter(p)

FillBufferEof(b) ==
  /\ op[b] = "idle"
  /\ area[b].avail = 0
  /\ AtEof(b)
  /\ area' = [area EXCEPT ![b] = NullArea]
  /\ UNCHANGED <<kernel, op, todo, mode, pair, ppid, rpipe, rsrc, error, rbuffer, saved, opens>>

-----------------------------------------------------------------------------
(* Waiting for the command and closing.                                    *)

\* waitpid() returned the command: ppid_ becomes 0.
Reap(b) ==
  /\ child' = [child EXCEPT ![b] = NoChild]
  /\ ppid' = [ppid EXCEPT ![b] = "reaped"]

\* exited(), that is wait(true): reaps a command that has already exited.
Exited(b) ==
  /\ op[b] = "idle"
  /\ IsOpen(b)
  /\ child[b].st = "zombie"
  /\ Reap(b)
  /\ UNCHANGED <<fds, content, op, todo, mode, pair, rpipe, rsrc, error, rbuffer,
                 area, saved, opens>>

\* kill(SIGTERM).
Kill(b) ==
  /\ op[b] = "idle"
  /\ IsOpen(b)
  /\ Running(b)
  /\ child' = [child EXCEPT ![b] = Dead(@)]
  /\ UNCHANGED <<fds, content, object>>

\* close() first calls sync(), which may reap the command, then frees the
\* buffers: the get area is cleared, rbufstate_ is left alone.
CloseBegin(b) ==
  /\ op[b] = "idle"
  /\ IF IsOpen(b) /\ child[b].st = "zombie" THEN Reap(b) ELSE UNCHANGED <<child, ppid>>
  /\ rbuffer' = [rbuffer EXCEPT ![b] = [s \in Srcs |-> 0]]
  /\ area' = [area EXCEPT ![b] = NullArea]
  /\ op' = [op EXCEPT ![b] = "drop"]
  /\ todo' = [todo EXCEPT ![b] = {s \in Srcs : rpipe[b][s] # None}]
  /\ UNCHANGED <<fds, content, mode, pair, rpipe, rsrc, error, saved, opens>>

\* Mutant of CloseEnd: close_fd() leaves the variable as it is.
CloseEndForgets(b) ==
  LET s == First(todo[b]) IN
  /\ op[b] = "drop"
  /\ todo[b] # {}
  /\ fds' = fds \ {<<rpipe[b][s], "rd">>}
  /\ todo' = [todo EXCEPT ![b] = @ \ {s}]
  /\ UNCHANGED <<content, child, op, mode, pair, ppid, rpipe, rsrc, error, rbuffer, area, saved, opens>>

\* close_fd_array(rpipe_), one descriptor at a time.
CloseEnd(b) ==
  LET s == First(todo[b]) IN
  /\ op[b] = "drop"
  /\ todo[b] # {}
  /\ fds' = fds \ {<<rpipe[b][s], "rd">>}
  /\ rpipe' = [rpipe EXCEPT ![b][s] = None]
  /\ todo' = [todo EXCEPT ![b] = @ \ {s}]
  /\ UNCHANGED <<content, child, op, mode, pair, ppid, rsrc, error, rbuffer, area, saved, opens>>

\* Mutant of CloseWait: wait() before the pipes are closed.
CloseWaitFirst(b) ==
  /\ op[b] = "drop"
  /\ error' = [error EXCEPT ![b] = FALSE]
  /\ op' = [op EXCEPT ![b] = IF IsOpen(b) THEN "wait" ELSE "idle"]
  /\ UNCHANGED <<kernel, todo, mode, pair, ppid, rpipe, rsrc, rbuffer, area, saved, opens>>

\* error_ = 0, then wait(): it blocks only when there is a command to wait for.
CloseWait(b) ==
  /\ op[b] = "drop"
  /\ todo[b] = {}
  /\ error' = [error EXCEPT ![b] = FALSE]
  /\ op' = [op EXCEPT ![b] = IF IsOpen(b) THEN "wait" ELSE "idle"]
  /\ UNCHANGED <<kernel, todo, mode, pair, ppid, rpipe, rsrc, rbuffer, area, saved, opens>>

Wait(b) ==
  /\ op[b] = "wait"
  /\ child[b].st = "zombie"
  /\ Reap(b)
  /\ op' = [op EXCEPT ![b] = "idle"]
  /\ UNCHANGED <<fds, content, todo, mode, pair, rpipe, rsrc, error, rbuffer, area, saved, opens>>

-----------------------------------------------------------------------------
(* The command (external).  It enters a write() to one of its standard     *)
(* streams and stays in it until there is room or nobody can read.         *)

ChildStartWrite(c, s) ==
  /\ child[c].st = "run"
  /\ child[c].left > 0
  /\ child[c].std[s] # None
  /\ child' = [child EXCEPT ![c].st = s]
  /\ UNCHANGED <<fds, content, object>>

ChildWrite(c, s) ==
  LET p == child[c].std[s] IN
  /\ child[c].st = s
  /\ HasReader(p)
  /\ content[p] < PipeCap
  /\ content' = [content EXCEPT ![p] = @ + 1]
  /\ child' = [child EXCEPT ![c].st = "run", ![c].left = @ - 1, ![c].wrote[s] = @ + 1]
  /\ UNCHANGED <<fds, object>>

ChildSigPipe(c, s) ==
  /\ child[c].st = s
  /\ ~HasReader(child[c].std[s])
  /\ child' = [child EXCEPT ![c] = Dead(@)]
  /\ UNCHANGED <<fds, content, object>>

\* The command closes a standard stream and goes on.
ChildClose(c, s) ==
  LET p == child[c].std[s] IN
  /\ s \in Closable
  /\ child[c].st = "run"
  /\ p # None
  /\ child' = [child EXCEPT ![c].fds = @ \ {<<p, "wr">>}, ![c].std[s] = None]
  /\ UNCHANGED <<fds, content, object>>

ChildExit(c) ==
  /\ child[c].st = "run"
  /\ child' = [child EXCEPT ![c] = Dead(@)]
  /\ UNCHANGED <<fds, content, object>>

-----------------------------------------------------------------------------
OpenStep(b) ==
  \/ \E p \in PipeIds : MakePipe(b, p)
  \/ OpenFails(b)
  \/ Fork(b)
  \/ StoreEnd(b)
  \/ CreateBuffers(b)

CloseStep(b) ==
  \/ CloseEnd(b)
  \/ CloseWait(b)
  \/ Wait(b)

ReadStep(b) ==
  \/ Consume(b)
  \/ FillBuffer(b)
  \/ FillBufferEof(b)

ChildStep(c) ==
  \/ \E s \in Srcs : \/ ChildStartWrite(c, s)
                     \/ ChildWrite(c, s)
                     \/ ChildSigPipe(c, s)
                     \/ ChildClose(c, s)
  \/ ChildExit(c)

\* A client that makes any call the class allows, in any order.
ClientStep(b) ==
  \/ \E m \in Modes : Open(b, m)
  \/ \E s \in Srcs : ReadErr(b, s)
  \/ ReadStep(b)
  \/ Exited(b)
  \/ Kill(b)
  \/ CloseBegin(b)

Next == \E b \in Bufs : ClientStep(b) \/ OpenStep(b) \/ CloseStep(b) \/ ChildStep(b)

Spec == Init /\ [][Next]_vars

\* A client that calls close() before it opens the same buffer again.
Closed(b) == rpipe[b] = NoPipes

TidyStep(b) == ClientStep(b) /\ (op'[b] = "pipes" => Closed(b))

TidyNext == \E b \in Bufs : TidyStep(b) \/ OpenStep(b) \/ CloseStep(b) \/ ChildStep(b)

TidySpec == Init /\ [][TidyNext]_vars

\* A thread inside a call goes on with it; a command that is not blocked in
\* a write() goes on, and its budget makes it end.
Fairness == \A b \in Bufs : /\ WF_vars(OpenStep(b))
                            /\ WF_vars(CloseStep(b))
                            /\ WF_vars(ChildStep(b))

FairTidySpec == TidySpec /\ Fairness

-----------------------------------------------------------------------------
(* Properties.                                                             *)

\* Between any two system calls of any thread the table holds exactly the
\* ends some buffer still refers to: open(), its error paths and close()
\* neither leak an end nor keep a write end that would hide end-of-file.
NoDescriptorLeak ==
  \A p \in PipeIds :
    /\ <<p, "wr">> \in fds <=> \E b \in Bufs, s \in Srcs : pair[b][s] = p
    /\ <<p, "rd">> \in fds <=> \E b \in Bufs, s \in Srcs : p \in {pair[b][s], rpipe[b][s]}

\* No end is referred to by two variables: a close() of one buffer never
\* takes away the pipe of another thread's.
EndsOwnedOnce ==
  \A b, c \in Bufs : \A s, t \in Srcs :
    /\ rpipe[b][s] # None /\ rpipe[b][s] = rpipe[c][t] => b = c /\ s = t
    /\ pair[b][s] # None /\ pair[b][s] = pair[c][t] => b = c /\ s = t
    /\ rpipe[b][s] # None => rpipe[b][s] # pair[c][t]

\* What a buffer reads as one stream was written by its own command to that
\* stream, whatever the other threads open, fork and close meanwhile.
OwnOutputOnly ==
  \A b, c \in Bufs : \A s, t \in Srcs :
    rpipe[b][s] # None /\ rpipe[b][s] = child[c].std[t] => b = c /\ s = t

\* The stream a command is writing to is open and it has something left to
\* write, it never exceeds its budget, it holds descriptors only while it
\* runs, and never the read end of its own streams.
CommandsConsistent ==
  \A c \in Bufs :
    /\ child[c].st \in Srcs => child[c].left > 0 /\ child[c].std[child[c].st] # None
    /\ child[c].left + child[c].wrote["out"] + child[c].wrote["err"] <= Budget
    /\ child[c].fds # {} => Running(c)
    /\ \A s \in Srcs :
         child[c].std[s] # None => <<child[c].std[s], "rd">> \notin child[c].fds

\* A command holds the write ends of its own streams.
StreamsHeld ==
  \A c \in Bufs : \A s \in Srcs :
    child[c].std[s] # None => <<child[c].std[s], "wr">> \in child[c].fds

\* Where open() and close() are decides what their variables still hold.
PhasesConsistent ==
  \A b \in Bufs : \A s \in Srcs :
    /\ op[b] \notin {"pipes", "parent"} => pair[b][s] = None
    /\ op[b] = "pipes" => rpipe[b][s] = None /\ (s \in todo[b] => pair[b][s] = None)
    /\ op[b] = "parent" => IF s \in todo[b] THEN pair[b][s] # None /\ rpipe[b][s] = None
                                            ELSE pair[b][s] = None
    /\ op[b] = "drop" => (s \in todo[b] <=> rpipe[b][s] # None)
    /\ op[b] = "wait" => rpipe[b][s] = None

\* Only the open() that started a command still has that command's pipes in
\* its local arrays.
PairsOwned ==
  \A b, c \in Bufs : \A s, t \in Srcs :
    pair[b][s] # None /\ pair[b][s] = child[c].std[t] => b = c /\ s = t

\* The streams of one command are different pipes.
StreamsDiffer ==
  \A b, c \in Bufs : \A s, t \in Srcs :
    child[b].std[s] # None /\ child[b].std[s] = child[c].std[t] => b = c /\ s = t

\* Who owns which pipe end: inductive together with the types, and the reason
\* why NoDescriptorLeak, EndsOwnedOnce and OwnOutputOnly hold.
Ownership ==
  /\ PhasesConsistent
  /\ NoDescriptorLeak
  /\ EndsOwnedOnce
  /\ PairsOwned
  /\ StreamsDiffer
  /\ StreamsHeld
  /\ OwnOutputOnly

IInv == TypeOK /\ CommandsConsistent /\ Ownership

\* When the command has exited, only a command another thread forked while
\* this buffer was being opened can keep end-of-file from the reader.
EofDelayedOnlyByOthers ==
  \A b \in Bufs : \A s \in Srcs :
    op[b] = "idle" /\ rpipe[b][s] # None /\ ~Running(b) /\ HasWriter(rpipe[b][s])
      => \E c \in Bufs \ {b} : Running(c) /\ <<rpipe[b][s], "wr">> \in child[c].fds

\* When close() waits for its command, only a command another thread forked
\* while this buffer was open can still read what it writes: with one buffer,
\* "close pipes before wait() so child gets EOF/SIGPIPE".
ChildGetsSigpipe ==
  \A b \in Bufs : \A s \in Srcs :
    op[b] = "wait" /\ child[b].std[s] # None /\ HasReader(child[b].std[s])
      => \E c \in Bufs \ {b} : Running(c) /\ <<child[b].std[s], "rd">> \in child[c].fds

\* The two together: only commands that other threads forked between pipe()
\* and close() can keep this thread from its end-of-file, or its command from
\* its SIGPIPE.
OnlyOthersDelay == EofDelayedOnlyByOthers /\ ChildGetsSigpipe

\* close() and the destructor return, whatever the command was doing, unless
\* another thread's running command inherited the read end of a pipe this
\* command writes to.  Two threads that close their buffers can each have such
\* a command, and then wait for ever.
CloseTerminates ==
  \A b \in Bufs :
    (op[b] = "drop") ~>
      \/ op[b] = "idle"
      \/ \E c \in Bufs \ {b} : Running(c) /\ \E s \in Srcs : <<child[b].std[s], "rd">> \in child[c].fds
=============================================================================
