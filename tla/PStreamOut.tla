----------------------------- MODULE PStreamOut -----------------------------
(***************************************************************************)
(* redi::basic_pstreambuf (include/pstream.h) opened for output, as        *)
(* basic_opstream and basic_pstream use it: characters go through a put    *)
(* area and a pipe into the standard input of a command, and what ends the *)
(* command is the end of that input.                                       *)
(*                                                                         *)
(* The commands are filters: they read their input to its end, and those   *)
(* of Duplex buffers write every character back to a standard output the   *)
(* buffer reads.  As in PStream the buffers share one descriptor table,    *)
(* and a command inherits all of it but the ends of its own pipes that     *)
(* fork() closes.  bufsz characters are fewer than PIPE_BUF: write() puts  *)
(* the whole put area into the pipe, or nothing.                           *)
(***************************************************************************)
EXTENDS Naturals

CONSTANTS
  Bufs,       \* the stream buffers, each used by a thread of its own
  Duplex,     \* those opened with pstdout as well
  BufSz,      \* bufsz, the size of the put area
  PipeCap,    \* characters a pipe holds
  Budget      \* characters a client inserts into one command, for each buffer

ASSUME OutAssumption ==
  /\ Duplex \subseteq Bufs
  /\ BufSz \in Nat \ {0}
  /\ PipeCap \in Nat
  /\ BufSz <= PipeCap
  /\ Budget \in [Bufs -> Nat]

VARIABLES
  fds,        \* the pipe ends the process has open
  child,      \* the command of each buffer, and the ends it has open
  inp,        \* characters in the pipe to the command
  outp,       \* characters in the pipe from the command
  op,         \* the call the thread is in ("idle" between calls, "killed" when
              \* SIGPIPE has ended the process)
  next,       \* what follows a write(): the call that had to empty the buffer
  ppid,       \* ppid_ > 0
  wpipe,      \* wpipe_ >= 0, and a wbuffer_ once open() has returned
  rpipe,      \* rpipe_[rsrc_out] >= 0
  error,      \* error_ # 0
  pend,       \* pptr() - pbase(): characters in the put area
  put,        \* history: characters the buffer has accepted for this command
  got,        \* history: characters this command has read
  cut         \* history: a signal has interrupted a write() to this command

object == <<op, next, ppid, wpipe, rpipe, error, pend, put, cut>>
ovars  == <<fds, child, inp, outp, op, next, ppid, wpipe, rpipe, error,
            pend, put, got, cut>>

Ends == Bufs \X {"in", "out"} \X {"rd", "wr"}

OutTypeOK ==
  /\ fds \in SUBSET Ends
  /\ child \in [Bufs -> [st : {"none", "run", "echo", "zombie"}, fds : SUBSET Ends]]
  /\ inp \in [Bufs -> 0..PipeCap]
  /\ outp \in [Bufs -> 0..PipeCap]
  /\ op \in [Bufs -> {"idle", "made", "parent", "stored", "write", "peof", "close",
                      "drop", "wait", "killed"}]
  /\ next \in [Bufs -> {"idle", "peof", "close"}]
  /\ ppid \in [Bufs -> BOOLEAN]
  /\ wpipe \in [Bufs -> BOOLEAN]
  /\ rpipe \in [Bufs -> BOOLEAN]
  /\ error \in [Bufs -> BOOLEAN]
  /\ pend \in [Bufs -> 0..BufSz]
  /\ put \in [Bufs -> Nat]
  /\ got \in [Bufs -> Nat]
  /\ cut \in [Bufs -> BOOLEAN]

NoCommand == [st |-> "none", fds |-> {}]

OutInit ==
  /\ fds = {}
  /\ child = [b \in Bufs |-> NoCommand]
  /\ inp = [b \in Bufs |-> 0]
  /\ outp = [b \in Bufs |-> 0]
  /\ op = [b \in Bufs |-> "idle"]
  /\ next = [b \in Bufs |-> "idle"]
  /\ ppid = [b \in Bufs |-> FALSE]
  /\ wpipe = [b \in Bufs |-> FALSE]
  /\ rpipe = [b \in Bufs |-> FALSE]
  /\ error = [b \in Bufs |-> FALSE]
  /\ pend = [b \in Bufs |-> 0]
  /\ put = [b \in Bufs |-> 0]
  /\ got = [b \in Bufs |-> 0]
  /\ cut = [b \in Bufs |-> FALSE]

Running(b) == child[b].st \in {"run", "echo"}

\* Some process can read from, or write to, the pipe s of b.
HasEnd(b, s, e) == <<b, s, e>> \in fds \/ \E c \in Bufs : <<b, s, e>> \in child[c].fds

Goto(b, l) == op' = [op EXCEPT ![b] = l]

-----------------------------------------------------------------------------
(* open(): fork(mode) and create_buffers(mode).                            *)

OwnEnds(b) == {e \in Ends : e[1] = b /\ (e[2] = "out" => b \in Duplex)}

\* pipe() for each stream, on a buffer that was closed (see PStream for one that
\* was not).  An earlier pipe of this buffer has no user left: copies of its
\* ends that other commands still hold are dropped here.
MakePipes(b) ==
  /\ op[b] = "idle"
  /\ ~ppid[b] /\ ~wpipe[b] /\ ~rpipe[b] /\ ~error[b]
  /\ fds' = fds \cup OwnEnds(b)
  /\ child' = [c \in Bufs |-> [child[c] EXCEPT !.fds = {e \in @ : e[1] # b}]]
  /\ outp' = [outp EXCEPT ![b] = 0]
  /\ Goto(b, "made")
  /\ UNCHANGED <<inp, next, ppid, wpipe, rpipe, error, pend, put, got, cut>>

\* pipe() or ::fork() failed: close_fd_array(fd), and open() returns NULL.
OpenFails(b) ==
  /\ op[b] = "made"
  /\ fds' = fds \ OwnEnds(b)
  /\ error' = [error EXCEPT ![b] = TRUE]
  /\ Goto(b, "idle")
  /\ UNCHANGED <<child, inp, outp, next, ppid, wpipe, rpipe, pend, put, got, cut>>

\* Mutant of ChildFds: the child closes pin[RD] and keeps pin[WR].
ChildFdsSwapped(b) == (fds \ OwnEnds(b)) \cup {e \in OwnEnds(b) : e[3] = "wr"}

\* The child keeps the read end of its standard input, the write end of its
\* standard output and every end of the other buffers' pipes.
ChildFds(b) ==
  (fds \ OwnEnds(b)) \cup {e \in OwnEnds(b) : e[2] = "in" <=> e[3] = "rd"}

Fork(b) ==
  /\ op[b] = "made"
  /\ child' = [child EXCEPT ![b] = [st |-> "run", fds |-> ChildFds(b)]]
  /\ ppid' = [ppid EXCEPT ![b] = TRUE]
  /\ Goto(b, "parent")
  /\ UNCHANGED <<fds, inp, outp, next, wpipe, rpipe, error, pend, put, got, cut>>

\* wpipe_ = pin[WR], ::close(pin[RD]).
StoreWriter(b) ==
  /\ op[b] = "parent"
  /\ wpipe' = [wpipe EXCEPT ![b] = TRUE]
  /\ fds' = fds \ {<<b, "in", "rd">>}
  /\ Goto(b, "stored")
  /\ UNCHANGED <<child, inp, outp, next, ppid, rpipe, error, pend, put, got, cut>>

\* The same for the standard output; create_buffers(), and open() returns.
StoreReader(b) ==
  /\ op[b] = "stored"
  /\ rpipe' = [rpipe EXCEPT ![b] = b \in Duplex]
  /\ fds' = fds \ {<<b, "out", "wr">>}
  /\ Goto(b, "idle")
  /\ UNCHANGED <<child, inp, outp, next, ppid, wpipe, error, pend, put, got, cut>>

-----------------------------------------------------------------------------
(* Inserting, and emptying the put area.                                   *)

\* sputc(), and xsputn()'s copy: there is room in the put area.
Put(b) ==
  /\ op[b] = "idle"
  /\ wpipe[b]
  /\ pend[b] < BufSz
  /\ put[b] < Budget[b]
  /\ pend' = [pend EXCEPT ![b] = @ + 1]
  /\ put' = [put EXCEPT ![b] = @ + 1]
  /\ UNCHANGED <<fds, child, inp, outp, op, next, ppid, wpipe, rpipe, error, got, cut>>

\* overflow(), and xsputn() without room: empty_buffer(), with no look at
\* whether the command is still there.
Overflow(b) ==
  /\ op[b] = "idle"
  /\ pend[b] = BufSz
  /\ Goto(b, "write")
  /\ UNCHANGED <<fds, child, inp, outp, next, ppid, wpipe, rpipe, error, pend, put, got, cut>>

\* wait() has the command's status: ppid_ = 0, the put area is freed with
\* what is in it, and wpipe_ is closed.  Nobody will read the pipe any more.
Reap(b) ==
  /\ child' = [child EXCEPT ![b] = NoCommand]
  /\ ppid' = [ppid EXCEPT ![b] = FALSE]
  /\ pend' = [pend EXCEPT ![b] = 0]
  /\ wpipe' = [wpipe EXCEPT ![b] = FALSE]
  /\ fds' = fds \ {<<b, "in", "wr">>}
  /\ inp' = [inp EXCEPT ![b] = 0]
  /\ put' = [put EXCEPT ![b] = 0]
  /\ got' = [got EXCEPT ![b] = 0]
  /\ cut' = [cut EXCEPT ![b] = FALSE]

\* sync(): exited(), then empty_buffer(); it fails, with no other effect, when
\* there is nothing to write.
Sync(b, then) ==
  /\ op[b] = "idle"
  /\ \/ /\ child[b].st = "zombie"
        /\ Reap(b)
        /\ Goto(b, then)
        /\ UNCHANGED next
     \/ /\ child[b].st # "zombie"
        /\ pend[b] > 0
        /\ Goto(b, "write")
        /\ next' = [next EXCEPT ![b] = then]
        /\ UNCHANGED <<fds, child, inp, ppid, wpipe, pend, put, got, cut>>
     \/ /\ child[b].st # "zombie"
        /\ pend[b] = 0
        /\ Goto(b, then)
        /\ UNCHANGED <<fds, child, inp, next, ppid, wpipe, pend, put, got, cut>>
  /\ UNCHANGED <<outp, rpipe, error>>

Flush(b) == ppid[b] /\ Sync(b, "idle")

\* Mutant of Peof: no sync().
PeofWithoutSync(b) ==
  /\ op[b] = "idle"
  /\ wpipe[b]
  /\ Goto(b, "peof")
  /\ UNCHANGED <<fds, child, inp, outp, next, ppid, wpipe, rpipe, error, pend, put, got, cut>>

Peof(b) == wpipe[b] /\ Sync(b, "peof")

Close(b) == Sync(b, "close")

\* write() returns when the pipe has room for the whole put area.
WriteDone(b) ==
  /\ op[b] = "write"
  /\ HasEnd(b, "in", "rd")
  /\ inp[b] + pend[b] <= PipeCap
  /\ inp' = [inp EXCEPT ![b] = @ + pend[b]]
  /\ pend' = [pend EXCEPT ![b] = 0]
  /\ Goto(b, next[b])
  /\ next' = [next EXCEPT ![b] = "idle"]
  /\ UNCHANGED <<fds, child, outp, ppid, wpipe, rpipe, error, put, got, cut>>

\* A signal interrupts a write() that blocks: nothing was written, and sync()'s
\* caller goes on.
WriteInterrupted(b) ==
  /\ op[b] = "write"
  /\ HasEnd(b, "in", "rd")
  /\ inp[b] + pend[b] > PipeCap
  /\ error' = [error EXCEPT ![b] = TRUE]
  /\ cut' = [cut EXCEPT ![b] = TRUE]
  /\ Goto(b, next[b])
  /\ next' = [next EXCEPT ![b] = "idle"]
  /\ UNCHANGED <<fds, child, inp, outp, ppid, wpipe, rpipe, pend, put, got>>

\* Nobody can read: SIGPIPE, which nothing in the program handles.
WriteBroken(b) ==
  /\ op[b] = "write"
  /\ ~HasEnd(b, "in", "rd")
  /\ op' = [c \in Bufs |-> "killed"]
  /\ fds' = {}
  /\ UNCHANGED <<child, inp, outp, next, ppid, wpipe, rpipe, error, pend, put, got, cut>>

-----------------------------------------------------------------------------
(* Closing.                                                                *)

\* Mutant of PeofEnd: the variable is reset, the descriptor stays open.
PeofEndForgets(b) ==
  /\ op[b] = "peof"
  /\ pend' = [pend EXCEPT ![b] = 0]
  /\ wpipe' = [wpipe EXCEPT ![b] = FALSE]
  /\ Goto(b, "idle")
  /\ UNCHANGED <<fds, child, inp, outp, next, ppid, rpipe, error, put, got, cut>>

\* destroy_buffers(pstdin) and close_fd(wpipe_).
PeofEnd(b) ==
  /\ op[b] = "peof"
  /\ pend' = [pend EXCEPT ![b] = 0]
  /\ wpipe' = [wpipe EXCEPT ![b] = FALSE]
  /\ fds' = fds \ {<<b, "in", "wr">>}
  /\ Goto(b, "idle")
  /\ UNCHANGED <<child, inp, outp, next, ppid, rpipe, error, put, got, cut>>

\* Mutant of CloseWriter: wait() comes before the pipes are closed.
CloseWaitsFirst(b) ==
  /\ op[b] = "close"
  /\ pend' = [pend EXCEPT ![b] = 0]
  /\ Goto(b, IF ppid[b] THEN "wait" ELSE "drop")
  /\ UNCHANGED <<fds, child, inp, outp, next, ppid, wpipe, rpipe, error, put, got, cut>>

\* close() frees the buffers and closes wpipe_, then rpipe_.
CloseWriter(b) ==
  /\ op[b] = "close"
  /\ pend' = [pend EXCEPT ![b] = 0]
  /\ wpipe' = [wpipe EXCEPT ![b] = FALSE]
  /\ fds' = fds \ {<<b, "in", "wr">>}
  /\ Goto(b, "drop")
  /\ UNCHANGED <<child, inp, outp, next, ppid, rpipe, error, put, got, cut>>

CloseReader(b) ==
  /\ op[b] = "drop"
  /\ rpipe' = [rpipe EXCEPT ![b] = FALSE]
  /\ fds' = fds \ {<<b, "out", "rd">>}
  /\ error' = [error EXCEPT ![b] = FALSE]
  /\ Goto(b, IF ppid[b] THEN "wait" ELSE "idle")
  /\ UNCHANGED <<child, inp, outp, next, ppid, wpipe, pend, put, got, cut>>

Wait(b) ==
  /\ op[b] = "wait"
  /\ child[b].st = "zombie"
  /\ Reap(b)
  /\ Goto(b, "idle")
  /\ UNCHANGED <<outp, next, rpipe, error>>

\* exited(): the command is reaped if it has ended.
Exited(b) ==
  /\ op[b] = "idle"
  /\ child[b].st = "zombie"
  /\ Reap(b)
  /\ UNCHANGED <<outp, op, next, rpipe, error>>

\* Extraction from a duplex buffer, one character at a time.
Get(b) ==
  /\ op[b] = "idle"
  /\ rpipe[b]
  /\ outp[b] > 0
  /\ outp' = [outp EXCEPT ![b] = @ - 1]
  /\ UNCHANGED <<fds, child, inp, object, got>>

-----------------------------------------------------------------------------
(* The commands (external).                                                *)

Gone == [st |-> "zombie", fds |-> {}]

ChildRead(c) ==
  /\ child[c].st = "run"
  /\ inp[c] > 0
  /\ inp' = [inp EXCEPT ![c] = @ - 1]
  /\ got' = [got EXCEPT ![c] = @ + 1]
  /\ child' = [child EXCEPT ![c].st = IF c \in Duplex THEN "echo" ELSE "run"]
  /\ UNCHANGED <<fds, outp, object>>

ChildEof(c) ==
  /\ child[c].st = "run"
  /\ inp[c] = 0
  /\ ~HasEnd(c, "in", "wr")
  /\ child' = [child EXCEPT ![c] = Gone]
  /\ UNCHANGED <<fds, inp, outp, object, got>>

ChildEcho(c) ==
  /\ child[c].st = "echo"
  /\ HasEnd(c, "out", "rd")
  /\ outp[c] < PipeCap
  /\ outp' = [outp EXCEPT ![c] = @ + 1]
  /\ child' = [child EXCEPT ![c].st = "run"]
  /\ UNCHANGED <<fds, inp, object, got>>

ChildSigPipe(c) ==
  /\ child[c].st = "echo"
  /\ ~HasEnd(c, "out", "rd")
  /\ child' = [child EXCEPT ![c] = Gone]
  /\ UNCHANGED <<fds, inp, outp, object, got>>

\* A command may end before its input does, on its own or by kill().
ChildEnds(c) ==
  /\ Running(c)
  /\ child' = [child EXCEPT ![c] = Gone]
  /\ UNCHANGED <<fds, inp, outp, object, got>>

-----------------------------------------------------------------------------
OpenStep(b) == OpenFails(b) \/ Fork(b) \/ StoreWriter(b) \/ StoreReader(b)

WriteStep(b) == WriteDone(b) \/ WriteBroken(b)

CloseStep(b) == PeofEnd(b) \/ CloseWriter(b) \/ CloseReader(b) \/ Wait(b)

Call(b) ==
  \/ MakePipes(b)
  \/ Put(b)
  \/ Overflow(b)
  \/ Flush(b)
  \/ Peof(b)
  \/ Close(b)
  \/ Exited(b)
  \/ Get(b)

Filter(c) == ChildRead(c) \/ ChildEof(c) \/ ChildEcho(c) \/ ChildSigPipe(c)

OutNext ==
  \/ \E b \in Bufs : Call(b) \/ OpenStep(b) \/ WriteStep(b) \/ CloseStep(b)
  \/ \E b \in Bufs : WriteInterrupted(b)
  \/ \E c \in Bufs : Filter(c) \/ ChildEnds(c)

OutSpec == OutInit /\ [][OutNext]_ovars

\* A thread goes on with its call when it can, and a filter with its input.
\* No signal is promised.
FairOutSpec ==
  /\ OutSpec
  /\ \A b \in Bufs :
       /\ WF_ovars(OpenStep(b) \/ WriteStep(b) \/ CloseStep(b))
       /\ WF_ovars(Filter(b))

-----------------------------------------------------------------------------
(* Properties.                                                             *)

\* Every character the buffer accepted is in the put area, in the pipe or with
\* the command, through peof() and close() too, unless a signal interrupted a
\* write(): neither call drops what was inserted before it.
NothingLost ==
  \A b \in Bufs : Running(b) /\ ~cut[b] => put[b] = pend[b] + inp[b] + got[b]

\* Which ends the process holds follows from where its threads are; a command
\* that runs can read its input and cannot write to it; what is in the put
\* area belongs to a command that has not been waited for.  With the types and
\* NothingLost these are inductive.
EndsHeld ==
  \A b \in Bufs :
    /\ op[b] = "killed" => fds = {}
    /\ op[b] # "killed" =>
         /\ <<b, "in", "wr">> \in fds <=> op[b] \in {"made", "parent"} \/ wpipe[b]
         /\ <<b, "in", "rd">> \in fds <=> op[b] \in {"made", "parent"}

KilledTogether == \A b, c \in Bufs : op[b] = "killed" => op[c] = "killed"

CommandEnds ==
  \A b \in Bufs :
    /\ ppid[b] <=> child[b].st # "none"
    /\ IF Running(b)
         THEN <<b, "in", "rd">> \in child[b].fds /\ <<b, "in", "wr">> \notin child[b].fds
         ELSE child[b].fds = {}

CallPhase ==
  \A b \in Bufs :
    /\ op[b] = "made" => ~ppid[b] /\ ~wpipe[b]
    /\ op[b] \in {"parent", "stored", "write"} => ppid[b]
    /\ wpipe[b] => ppid[b]
    /\ ~ppid[b] => pend[b] = 0 /\ inp[b] = 0 /\ put[b] = 0 /\ got[b] = 0
    /\ op[b] \in {"peof", "close"} /\ Running(b) /\ ~cut[b] => pend[b] = 0

OutInv == OutTypeOK /\ EndsHeld /\ KilledTogether /\ CommandEnds /\ CallPhase /\ NothingLost

\* SIGPIPE ends the process only when the command has ended before the write():
\* after the look sync() takes at it, or at any time for overflow(), which takes
\* none.  It never does while the command is there to read.
KilledOnlyAfterExit ==
  [][\A b \in Bufs : op[b] # "killed" /\ op'[b] = "killed" =>
       \E c \in Bufs : op[c] = "write" /\ child[c].st = "zombie"]_ovars

Others(b, s, e) == \E c \in Bufs \ {b} : Running(c) /\ <<b, s, e>> \in child[c].fds

\* "Closes the output pipe, causing the child process to receive the
\* end-of-file indicator": it does, except where another thread's command
\* inherited the write end.
CommandGetsEof ==
  \A b \in Bufs :
    op[b] \in {"idle", "drop", "wait"} /\ Running(b) /\ ~wpipe[b] /\ HasEnd(b, "in", "wr")
      => Others(b, "in", "wr")

\* A write() to a command that has ended does not block, except where another
\* thread's command inherited the read end.
WriteStuckOnlyByOthers ==
  \A b \in Bufs :
    op[b] = "write" /\ child[b].st = "zombie" /\ HasEnd(b, "in", "rd") => Others(b, "in", "rd")

\* The two together: the ends a command inherited from another thread are all
\* that can hide the end of the input from the command, or the command's end
\* from the writer.
OnlyOthersHold == CommandGetsEof /\ WriteStuckOnlyByOthers

\* close() comes to its end: a filter sees the end of its input, or that nobody
\* reads its output.  Emptying the put area may block for ever only when the
\* command's output has to be read as well (Duplex).  Other commands that
\* inherited an end of the pipes may keep it waiting.
CloseEnds ==
  \A b \in Bufs :
    op[b] = "close" \/ (op[b] = "write" /\ next[b] = "close" /\ b \notin Duplex) ~>
      \/ op[b] \in {"idle", "killed"}
      \/ \E s \in {"in", "out"}, e \in {"rd", "wr"} : Others(b, s, e)
=============================================================================
