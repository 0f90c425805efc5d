---------------------------- MODULE PStreamExec ----------------------------
(***************************************************************************)
(* open(file, argv, mode) of redi::basic_pstreambuf (include/pstream.h):   *)
(* how it finds out whether the child could execute the file.  The child   *)
(* reports a failed execvp() through a pipe of its own, ck_exec; a         *)
(* successful one closes the write end, which is close-on-exec, and the    *)
(* parent's read() returns 0.                                              *)
(*                                                                         *)
(* Several threads open buffers at the same time, with this open() or with *)
(* the shell one, and every fork() copies the whole descriptor table.  The *)
(* pipes of the standard streams are PStream's and left out here.          *)
(***************************************************************************)
CONSTANT
  Threads      \* each opens, closes and opens again a buffer of its own

VARIABLES
  op,          \* where the thread is in open() or close()
  ckwr,        \* ck_exec[WR] in the parent: closed, or open with its flag
  report,      \* the child's errno is in the pipe
  held,        \* the write ends in the child's table, with their flags
  child,       \* the child of each buffer
  ppid,        \* ppid_ > 0
  error        \* error_ # 0

xvars == <<op, ckwr, report, held, child, ppid, error>>

Flags == {"plain", "cloexec"}

ExecTypeOK ==
  /\ op \in [Threads -> {"idle", "made", "ready", "forked", "read", "reap", "wait"}]
  /\ ckwr \in [Threads -> Flags \cup {"closed"}]
  /\ report \in [Threads -> BOOLEAN]
  /\ held \in [Threads -> SUBSET (Threads \X Flags)]
  /\ child \in [Threads -> {"none", "born", "failed", "refused", "run", "zombie"}]
  /\ ppid \in [Threads -> BOOLEAN]
  /\ error \in [Threads -> BOOLEAN]

ExecInit ==
  /\ op = [t \in Threads |-> "idle"]
  /\ ckwr = [t \in Threads |-> "closed"]
  /\ report = [t \in Threads |-> FALSE]
  /\ held = [t \in Threads |-> {}]
  /\ child = [t \in Threads |-> "none"]
  /\ ppid = [t \in Threads |-> FALSE]
  /\ error = [t \in Threads |-> FALSE]

Goto(t, l) == op' = [op EXCEPT ![t] = l]

-----------------------------------------------------------------------------
(* The parent.                                                             *)

\* ::pipe(ck_exec): until fcntl() the ends are inherited through exec.  Ends
\* of an earlier pipe that other children still have are not this pipe's.
MakeExecPipe(t) ==
  /\ op[t] = "idle"
  /\ ~ppid[t]
  /\ ckwr' = [ckwr EXCEPT ![t] = "plain"]
  /\ report' = [report EXCEPT ![t] = FALSE]
  /\ held' = [c \in Threads |-> {h \in held[c] : h[1] # t}]
  /\ Goto(t, "made")
  /\ UNCHANGED <<child, ppid, error>>

SetCloexec(t) ==
  /\ op[t] = "made"
  /\ ckwr' = [ckwr EXCEPT ![t] = "cloexec"]
  /\ Goto(t, "ready")
  /\ UNCHANGED <<report, held, child, ppid, error>>

\* pipe(), fcntl() or fork(mode) failed, and fork(mode) always does while
\* error_ is set: close_fd_array(ck_exec), and open() returns NULL.
OpenFails(t) ==
  /\ op[t] \in {"made", "ready"} \/ (op[t] = "idle" /\ ~ppid[t])
  /\ error' = [error EXCEPT ![t] = TRUE]
  /\ ckwr' = [ckwr EXCEPT ![t] = "closed"]
  /\ Goto(t, "idle")
  /\ UNCHANGED <<report, held, child, ppid>>

\* The child's table is a copy of the parent's.
Inherit(t) == held' = [held EXCEPT ![t] = {<<u, ckwr[u]>> : u \in {v \in Threads : ckwr[v] # "closed"}}]

\* Mutant of Fork: the pipe is made close-on-exec after the fork.
ForkBeforeCloexec(t) ==
  /\ op[t] = "made"
  /\ ~error[t]
  /\ Inherit(t)
  /\ child' = [child EXCEPT ![t] = "born"]
  /\ ppid' = [ppid EXCEPT ![t] = TRUE]
  /\ Goto(t, "forked")
  /\ UNCHANGED <<ckwr, report, error>>

Fork(t) ==
  /\ op[t] = "ready"
  /\ ~error[t]
  /\ Inherit(t)
  /\ child' = [child EXCEPT ![t] = "born"]
  /\ ppid' = [ppid EXCEPT ![t] = TRUE]
  /\ Goto(t, "forked")
  /\ UNCHANGED <<ckwr, report, error>>

\* The other open(): a shell command, without ck_exec.
ForkShell(t) ==
  /\ op[t] = "idle"
  /\ ~ppid[t]
  /\ ~error[t]
  /\ Inherit(t)
  /\ child' = [child EXCEPT ![t] = "born"]
  /\ ppid' = [ppid EXCEPT ![t] = TRUE]
  /\ UNCHANGED <<op, ckwr, report, error>>

\* Mutant of CloseWriteEnd: the parent keeps its write end.
KeepWriteEnd(t) ==
  /\ op[t] = "forked"
  /\ Goto(t, "read")
  /\ UNCHANGED <<ckwr, report, held, child, ppid, error>>

CloseWriteEnd(t) ==
  /\ op[t] = "forked"
  /\ ckwr' = [ckwr EXCEPT ![t] = "closed"]
  /\ Goto(t, "read")
  /\ UNCHANGED <<report, held, child, ppid, error>>

HasWriter(t) ==
  \/ ckwr[t] # "closed"
  \/ \E c \in Threads : \E f \in Flags : <<t, f>> \in held[c]

\* read() returned 0: the file was executed, create_buffers(), return this.
ReadEof(t) ==
  /\ op[t] = "read"
  /\ ~report[t]
  /\ ~HasWriter(t)
  /\ Goto(t, "idle")
  /\ UNCHANGED <<ckwr, report, held, child, ppid, error>>

\* read() returned the child's errno, which stays error_; wait() follows.
ReadReport(t) ==
  /\ op[t] = "read"
  /\ report[t]
  /\ report' = [report EXCEPT ![t] = FALSE]
  /\ error' = [error EXCEPT ![t] = TRUE]
  /\ Goto(t, "reap")
  /\ UNCHANGED <<ckwr, held, child, ppid>>

\* A signal made read() return -1: open() returns NULL, but ppid_ stays what
\* it is.
ReadInterrupted(t) ==
  /\ op[t] = "read"
  /\ error' = [error EXCEPT ![t] = TRUE]
  /\ Goto(t, "idle")
  /\ UNCHANGED <<ckwr, report, held, child, ppid>>

\* close(): error_ = 0, and wait() if there is a child.
Close(t) ==
  /\ op[t] = "idle"
  /\ error' = [error EXCEPT ![t] = FALSE]
  /\ Goto(t, IF ppid[t] THEN "wait" ELSE "idle")
  /\ UNCHANGED <<ckwr, report, held, child, ppid>>

Wait(t) ==
  /\ op[t] \in {"reap", "wait"}
  /\ child[t] \in {"refused", "zombie"}
  /\ child' = [child EXCEPT ![t] = "none"]
  /\ ppid' = [ppid EXCEPT ![t] = FALSE]
  /\ Goto(t, "idle")
  /\ UNCHANGED <<ckwr, report, held, error>>

\* A signal interrupts the waitpid() of open(): only close() tries again.
WaitInterrupted(t) ==
  /\ op[t] = "reap"
  /\ Goto(t, "idle")
  /\ UNCHANGED <<ckwr, report, held, child, ppid, error>>

-----------------------------------------------------------------------------
(* The child.                                                              *)

\* execvp() closes what is close-on-exec.
Exec(c) ==
  /\ child[c] = "born"
  /\ held' = [held EXCEPT ![c] = {h \in @ : h[2] = "plain"}]
  /\ child' = [child EXCEPT ![c] = "run"]
  /\ UNCHANGED <<op, ckwr, report, ppid, error>>

\* execvp() failed: the errno is written if this child has a ck_exec of its
\* own; the shell's child just exits.
ExecFails(c) ==
  /\ child[c] = "born"
  /\ IF <<c, "cloexec">> \in held[c]
       THEN /\ report' = [report EXCEPT ![c] = TRUE]
            /\ child' = [child EXCEPT ![c] = "failed"]
            /\ UNCHANGED held
       ELSE /\ child' = [child EXCEPT ![c] = "refused"]
            /\ held' = [held EXCEPT ![c] = {}]
            /\ UNCHANGED report
  /\ UNCHANGED <<op, ckwr, ppid, error>>

\* _exit(error_).
FailedExits(c) ==
  /\ child[c] = "failed"
  /\ child' = [child EXCEPT ![c] = "refused"]
  /\ held' = [held EXCEPT ![c] = {}]
  /\ UNCHANGED <<op, ckwr, report, ppid, error>>

\* The executed file ends (external).
Exits(c) ==
  /\ child[c] = "run"
  /\ child' = [child EXCEPT ![c] = "zombie"]
  /\ held' = [held EXCEPT ![c] = {}]
  /\ UNCHANGED <<op, ckwr, report, ppid, error>>

-----------------------------------------------------------------------------
OpenStep(t) ==
  \/ SetCloexec(t)
  \/ OpenFails(t)
  \/ Fork(t)
  \/ CloseWriteEnd(t)
  \/ ReadEof(t)
  \/ ReadReport(t)
  \/ Wait(t)

\* Signals, which nothing promises.
Interrupted(t) == ReadInterrupted(t) \/ WaitInterrupted(t)

Start(t) == MakeExecPipe(t) \/ ForkShell(t) \/ Close(t)

StartUpStep(c) == Exec(c) \/ ExecFails(c) \/ FailedExits(c)

ExecNext == \E t \in Threads : Start(t) \/ OpenStep(t) \/ Interrupted(t) \/ StartUpStep(t) \/ Exits(t)

ExecSpec == ExecInit /\ [][ExecNext]_xvars

\* A thread inside open() goes on when it can, and so does a child until it
\* has executed its file.  The executed file may run for ever.
FairExecSpec ==
  ExecSpec /\ \A t \in Threads : WF_xvars(op[t] # "idle" /\ OpenStep(t)) /\ WF_xvars(StartUpStep(t))

-----------------------------------------------------------------------------
(* Properties.                                                             *)

\* Where a thread is in open() decides the state of its pipe, and what its
\* child still holds decides how far the child has come.
PipePhase ==
  \A t \in Threads :
    /\ ckwr[t] = CASE op[t] = "made" -> "plain"
                   [] op[t] \in {"ready", "forked"} -> "cloexec"
                   [] OTHER -> "closed"
    /\ op[t] \in {"made", "ready"} => ~ppid[t]
    /\ ~ppid[t] => child[t] = "none"
    /\ op[t] \in {"forked", "read"} => child[t] # "none"

ChildPhase ==
  \A t \in Threads :
    /\ child[t] \in {"none", "refused", "zombie"} => held[t] = {}
    /\ child[t] = "run" => \A h \in held[t] : h[2] = "plain"
    /\ <<t, "plain">> \notin held[t]
    /\ op[t] \in {"forked", "read"} /\ child[t] \in {"born", "failed"} => <<t, "cloexec">> \in held[t]
    /\ op[t] \in {"forked", "read"} /\ child[t] \in {"failed", "refused"} => report[t]

\* The two together with the types are inductive: no path through open()
\* leaves a write end open, and an idle buffer without ppid_ has no child.
ExecInv == ExecTypeOK /\ PipePhase /\ ChildPhase

\* "Iff file is successfully executed then is_open() will return true": when
\* read() sees the end of the pipe, the child has executed its file; it never
\* takes a child that is still trying, or that failed, for a running one.
EofMeansExecuted ==
  \A t \in Threads :
    op[t] = "read" /\ ~report[t] /\ ~HasWriter(t) => child[t] \in {"run", "zombie"}

\* The end of a child's start-up reaches the thread that waits for it unless
\* another thread forked between pipe() and fcntl(), or is starting a child.
ReadDelayedOnlyByOthers ==
  \A t \in Threads :
    op[t] = "read" /\ child[t] \in {"run", "zombie"} /\ HasWriter(t) =>
      \E c \in Threads \ {t} : \/ child[c] = "run" /\ <<t, "plain">> \in held[c]
                               \/ child[c] \in {"born", "failed"}

\* What the parent concludes from ck_exec is true, and it comes to conclude it
\* unless another thread's command is in the way.
ReportIsTrue == EofMeansExecuted /\ ReadDelayedOnlyByOthers

\* open() returns, unless a file that another thread is running inherited the
\* write end.
OpenReturns ==
  \A t \in Threads :
    (op[t] = "made") ~>
      \/ op[t] = "idle"
      \/ \E c \in Threads \ {t} : child[c] = "run" /\ <<t, "plain">> \in held[c]
=============================================================================
