------------------------- MODULE PStreamExec_proofs -------------------------
(***************************************************************************)
(* Proofs about PStreamExec, for any number of threads.                    *)
(***************************************************************************)
EXTENDS PStreamExec, TLAPS

\* The constructors establish the invariant.
LEMMA ExecInitInv == ExecInit => ExecInv
BY DEF ExecInit, ExecInv, ExecTypeOK, PipePhase, ChildPhase, Flags

\* A fork gives the child the ends of the parent's table and changes nobody
\* else's.
LEMMA ForkedChild ==
  ASSUME ExecInv, NEW t \in Threads,
         \A c \in Threads \ {t} : held'[c] = held[c] /\ child'[c] = child[c] /\ op'[c] = op[c],
         \A f \in Flags : <<t, f>> \in held'[t] <=> f = ckwr[t],
         held'[t] \in SUBSET (Threads \X Flags),
         child'[t] = "born", report' = report,
         ckwr[t] # "plain", op'[t] \in {"forked", "read"} => ckwr[t] = "cloexec"
  PROVE  ChildPhase'
<1> SUFFICES ASSUME NEW u \in Threads
    PROVE /\ child'[u] \in {"none", "refused", "zombie"} => held'[u] = {}
          /\ child'[u] = "run" => \A h \in held'[u] : h[2] = "plain"
          /\ <<u, "plain">> \notin held'[u]
          /\ op'[u] \in {"forked", "read"} /\ child'[u] \in {"born", "failed"} => <<u, "cloexec">> \in held'[u]
          /\ op'[u] \in {"forked", "read"} /\ child'[u] \in {"failed", "refused"} => report'[u]
  BY DEF ChildPhase
<1>1. CASE u = t
  BY <1>1 DEF Flags
<1>2. CASE u # t
  BY <1>2 DEF ExecInv, ChildPhase
<1> QED BY <1>1, <1>2

-----------------------------------------------------------------------------
(* The parent's steps.                                                     *)

\* A fork while no flag is missing from the thread's own pipe.
LEMMA InheritFacts ==
  ASSUME ExecInv, NEW t \in Threads, Inherit(t)
  PROVE  /\ held' \in [Threads -> SUBSET (Threads \X Flags)]
         /\ \A c \in Threads \ {t} : held'[c] = held[c]
         /\ \A u \in Threads, f \in Flags : <<u, f>> \in held'[t] <=> f = ckwr[u]
<1> DEFINE H == {<<u, ckwr[u]>> : u \in {v \in Threads : ckwr[v] # "closed"}}
<1>1. H \in SUBSET (Threads \X Flags)
  BY DEF ExecInv, ExecTypeOK, Flags
<1>2. held' = [held EXCEPT ![t] = H]
  BY DEF Inherit
<1>3. \A u \in Threads, f \in Flags : <<u, f>> \in H <=> f = ckwr[u]
  BY DEF Flags
<1> HIDE DEF H
<1> QED BY <1>1, <1>2, <1>3 DEF ExecInv, ExecTypeOK

\* An idle thread's steps: the two open()s and close().
LEMMA StartInv ==
  ASSUME ExecInv, NEW t \in Threads, Start(t)
  PROVE  ExecInv'
<1>1. CASE MakeExecPipe(t)
  <2>1. \A c \in Threads : held'[c] = {h \in held[c] : h[1] # t}
    BY <1>1 DEF MakeExecPipe
  <2>2. ExecTypeOK'
    BY <1>1, <2>1 DEF MakeExecPipe, Goto, ExecInv, ExecTypeOK, Flags
  <2>3. PipePhase'
    BY <1>1 DEF MakeExecPipe, Goto, ExecInv, ExecTypeOK, PipePhase
  <2>4. child[t] = "none"
    BY <1>1 DEF MakeExecPipe, ExecInv, PipePhase
  <2>5. \A c \in Threads, f \in Flags : c # t => (<<c, f>> \in held'[c] <=> <<c, f>> \in held[c])
    BY <2>1
  <2>6. ChildPhase'
    <3> SUFFICES ASSUME NEW u \in Threads
        PROVE /\ child'[u] \in {"none", "refused", "zombie"} => held'[u] = {}
              /\ child'[u] = "run" => \A h \in held'[u] : h[2] = "plain"
              /\ <<u, "plain">> \notin held'[u]
              /\ op'[u] \in {"forked", "read"} /\ child'[u] \in {"born", "failed"} => <<u, "cloexec">> \in held'[u]
              /\ op'[u] \in {"forked", "read"} /\ child'[u] \in {"failed", "refused"} => report'[u]
      BY DEF ChildPhase
    <3>1. CASE u = t
      BY <1>1, <2>1, <2>4, <3>1 DEF MakeExecPipe, Goto, ExecInv, ExecTypeOK, ChildPhase
    <3>2. CASE u # t
      BY <1>1, <2>1, <2>5, <3>2 DEF MakeExecPipe, Goto, ExecInv, ExecTypeOK, ChildPhase, Flags
    <3> QED BY <3>1, <3>2
  <2> QED BY <2>2, <2>3, <2>6 DEF ExecInv
<1>2. CASE ForkShell(t)
  <2>1. ckwr[t] = "closed" /\ op[t] = "idle"
    BY <1>2 DEF ForkShell, ExecInv, PipePhase
  <2>2. ExecTypeOK'
    BY <1>2, InheritFacts DEF ForkShell, ExecInv, ExecTypeOK
  <2>3. PipePhase'
    BY <1>2, <2>1 DEF ForkShell, ExecInv, ExecTypeOK, PipePhase
  <2>4. ChildPhase'
    <3>1. /\ \A c \in Threads \ {t} : held'[c] = held[c] /\ child'[c] = child[c]
          /\ \A f \in Flags : <<t, f>> \in held'[t] <=> f = ckwr[t]
          /\ held'[t] \in SUBSET (Threads \X Flags)
      BY <1>2, InheritFacts DEF ForkShell, ExecInv, ExecTypeOK
    <3>2. child'[t] = "born" /\ report' = report /\ op' = op
      BY <1>2 DEF ForkShell, ExecInv, ExecTypeOK
    <3> QED BY <2>1, <3>1, <3>2, ForkedChild
  <2> QED BY <2>2, <2>3, <2>4 DEF ExecInv
<1>3. CASE Close(t)
  <2>1. ExecTypeOK'
    BY <1>3 DEF Close, Goto, ExecInv, ExecTypeOK
  <2>2. PipePhase' /\ ChildPhase'
    BY <1>3 DEF Close, Goto, ExecInv, ExecTypeOK, PipePhase, ChildPhase
  <2> QED BY <2>1, <2>2 DEF ExecInv
<1> QED BY <1>1, <1>2, <1>3 DEF Start

\* What a thread does inside open() and in wait(), signals included.
LEMMA OpenInv ==
  ASSUME ExecInv, NEW t \in Threads, OpenStep(t) \/ Interrupted(t)
  PROVE  ExecInv'
<1>1. CASE SetCloexec(t)
  BY <1>1 DEF SetCloexec, Goto, ExecInv, ExecTypeOK, PipePhase, ChildPhase, Flags
<1>2. CASE OpenFails(t)
  BY <1>2 DEF OpenFails, Goto, ExecInv, ExecTypeOK, PipePhase, ChildPhase
<1>3. CASE Fork(t)
  <2>1. ckwr[t] = "cloexec"
    BY <1>3 DEF Fork, ExecInv, PipePhase
  <2>2. ExecTypeOK'
    BY <1>3, InheritFacts DEF Fork, Goto, ExecInv, ExecTypeOK
  <2>3. PipePhase'
    BY <1>3, <2>1 DEF Fork, Goto, ExecInv, ExecTypeOK, PipePhase
  <2>4. ChildPhase'
    <3>1. /\ \A c \in Threads \ {t} : held'[c] = held[c] /\ child'[c] = child[c] /\ op'[c] = op[c]
          /\ \A f \in Flags : <<t, f>> \in held'[t] <=> f = ckwr[t]
          /\ held'[t] \in SUBSET (Threads \X Flags)
      BY <1>3, InheritFacts DEF Fork, Goto, ExecInv, ExecTypeOK
    <3>2. child'[t] = "born" /\ report' = report
      BY <1>3 DEF Fork, ExecInv, ExecTypeOK
    <3> QED BY <2>1, <3>1, <3>2, ForkedChild
  <2> QED BY <2>2, <2>3, <2>4 DEF ExecInv
<1>4. CASE CloseWriteEnd(t)
  BY <1>4 DEF CloseWriteEnd, Goto, ExecInv, ExecTypeOK, PipePhase, ChildPhase
<1>5. CASE ReadEof(t) \/ ReadReport(t) \/ ReadInterrupted(t)
  <2>1. UNCHANGED <<ckwr, held, child, ppid>> /\ op[t] = "read" /\ op'[t] \in {"idle", "reap"}
    BY <1>5 DEF ReadEof, ReadReport, ReadInterrupted, Goto, ExecInv, ExecTypeOK
  <2>2. \A u \in Threads \ {t} : op'[u] = op[u] /\ report'[u] = report[u]
    BY <1>5 DEF ReadEof, ReadReport, ReadInterrupted, Goto, ExecInv, ExecTypeOK
  <2>3. ExecTypeOK'
    BY <1>5 DEF ReadEof, ReadReport, ReadInterrupted, Goto, ExecInv, ExecTypeOK
  <2>4. PipePhase'
    BY <2>1, <2>2 DEF ExecInv, PipePhase
  <2>5. ChildPhase'
    BY <2>1, <2>2 DEF ExecInv, ChildPhase
  <2> QED BY <2>3, <2>4, <2>5 DEF ExecInv
<1>6. CASE Wait(t)
  BY <1>6 DEF Wait, Goto, ExecInv, ExecTypeOK, PipePhase, ChildPhase
<1>7. CASE WaitInterrupted(t)
  BY <1>7 DEF WaitInterrupted, Goto, ExecInv, ExecTypeOK, PipePhase, ChildPhase
<1> QED BY <1>1, <1>2, <1>3, <1>4, <1>5, <1>6, <1>7 DEF OpenStep, Interrupted

-----------------------------------------------------------------------------
(* The children's steps.                                                   *)

\* The child's steps, up to its end.
LEMMA ChildInv ==
  ASSUME ExecInv, NEW c \in Threads, StartUpStep(c) \/ Exits(c)
  PROVE  ExecInv'
<1>1. UNCHANGED <<op, ckwr, ppid, error>> /\ PipePhase'
  BY DEF StartUpStep, Exec, ExecFails, FailedExits, Exits, ExecInv, ExecTypeOK, PipePhase
<1>2. CASE Exec(c)
  <2>1. held'[c] = {h \in held[c] : h[2] = "plain"} /\ \A d \in Threads \ {c} : held'[d] = held[d]
    BY <1>2 DEF Exec, ExecInv, ExecTypeOK
  <2>2. ExecTypeOK'
    BY <1>1, <1>2, <2>1 DEF Exec, ExecInv, ExecTypeOK
  <2>3. ChildPhase'
    BY <1>1, <1>2, <2>1 DEF Exec, ExecInv, ExecTypeOK, ChildPhase
  <2> QED BY <1>1, <2>2, <2>3 DEF ExecInv
<1>3. CASE ExecFails(c)
  <2>1. CASE <<c, "cloexec">> \in held[c]
    <3>1. /\ child' = [child EXCEPT ![c] = "failed"]
          /\ report' = [report EXCEPT ![c] = TRUE]
          /\ held' = held /\ child[c] = "born"
      BY <1>3, <2>1 DEF ExecFails
    <3>2. ExecTypeOK'
      BY <1>1, <3>1 DEF ExecInv, ExecTypeOK
    <3>3. ChildPhase'
      BY <1>1, <3>1, <2>1 DEF ExecInv, ExecTypeOK, ChildPhase
    <3> QED BY <1>1, <3>2, <3>3 DEF ExecInv
  <2>2. CASE <<c, "cloexec">> \notin held[c]
    <3>1. /\ child' = [child EXCEPT ![c] = "refused"]
          /\ held' = [held EXCEPT ![c] = {}]
          /\ report' = report /\ child[c] = "born"
      BY <1>3, <2>2 DEF ExecFails
    <3>2. op[c] \notin {"forked", "read"}
      BY <2>2, <3>1 DEF ExecInv, ChildPhase
    <3>3. ExecTypeOK'
      BY <1>1, <3>1 DEF ExecInv, ExecTypeOK
    <3>4. ChildPhase'
      BY <1>1, <3>1, <3>2 DEF ExecInv, ExecTypeOK, ChildPhase
    <3> QED BY <1>1, <3>3, <3>4 DEF ExecInv
  <2> QED BY <2>1, <2>2
<1>4. CASE FailedExits(c) \/ Exits(c)
  BY <1>1, <1>4 DEF FailedExits, Exits, ExecInv, ExecTypeOK, ChildPhase
<1> QED BY <1>2, <1>3, <1>4 DEF StartUpStep

\* The phases are inductive for any number of threads.
THEOREM ExecInductive == ExecSpec => []ExecInv
<1>1. ExecInv /\ [ExecNext]_xvars => ExecInv'
  <2> SUFFICES ASSUME ExecInv, [ExecNext]_xvars PROVE ExecInv'
    OBVIOUS
  <2>1. CASE UNCHANGED xvars
    BY <2>1 DEF xvars, ExecInv, ExecTypeOK, PipePhase, ChildPhase
  <2>2. CASE ExecNext
    BY <2>2, StartInv, OpenInv, ChildInv DEF ExecNext
  <2> QED BY <2>1, <2>2
<1> QED BY <1>1, ExecInitInv, PTL DEF ExecSpec

\* open(file, argv) never takes a child that could not execute its file, or
\* that has not tried yet, for a running one.
THEOREM EofIsExecuted == ExecSpec => []EofMeansExecuted
<1>1. ExecInv => EofMeansExecuted
  BY DEF ExecInv, ExecTypeOK, PipePhase, ChildPhase, EofMeansExecuted, HasWriter, Flags
<1> QED BY <1>1, ExecInductive, PTL

\* The thread's own child never keeps it waiting once it has executed its file.
THEOREM DelayedOnlyByOthers == ExecSpec => []ReadDelayedOnlyByOthers
<1>1. ExecInv => ReadDelayedOnlyByOthers
  <2> SUFFICES ASSUME ExecInv, NEW t \in Threads, op[t] = "read",
                      child[t] \in {"run", "zombie"}, HasWriter(t)
               PROVE  \E c \in Threads \ {t} : \/ child[c] = "run" /\ <<t, "plain">> \in held[c]
                                               \/ child[c] \in {"born", "failed"}
    BY DEF ReadDelayedOnlyByOthers
  <2>1. PICK c \in Threads, f \in Flags : <<t, f>> \in held[c]
    BY DEF HasWriter, ExecInv, PipePhase
  <2>2. c # t
    BY <2>1 DEF ExecInv, ChildPhase, Flags
  <2>3. child[c] \in {"born", "failed", "run"}
    BY <2>1 DEF ExecInv, ExecTypeOK, ChildPhase
  <2>4. child[c] = "run" => f = "plain"
    BY <2>1 DEF ExecInv, ChildPhase
  <2> QED BY <2>1, <2>2, <2>3, <2>4
<1> QED BY <1>1, ExecInductive, PTL

\* What open(file, argv) concludes from ck_exec is true for any number of
\* threads, and only their starting commands delay it.
THEOREM TrueReport == ExecSpec => []ReportIsTrue
BY EofIsExecuted, DelayedOnlyByOthers, PTL DEF ReportIsTrue
=============================================================================
