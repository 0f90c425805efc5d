------------------------- MODULE PStreamOut_proofs -------------------------
(***************************************************************************)
(* Proofs about PStreamOut, for any number of buffers, any sizes and any   *)
(* number of characters.                                                   *)
(***************************************************************************)
EXTENDS PStreamOut, TLAPS

\* open() up to create_buffers().
LEMMA OpenInv ==
  ASSUME OutInv, NEW b \in Bufs, MakePipes(b) \/ OpenStep(b)
  PROVE  OutInv'
<1>1. CASE MakePipes(b)
  <2>0. \A c \in Bufs : /\ child'[c].st = child[c].st
                        /\ child'[c].fds = {e \in child[c].fds : e[1] # b}
                        /\ child'[c] \in [st : {"none", "run", "echo", "zombie"}, fds : SUBSET Ends]
    BY <1>1 DEF MakePipes, OutInv, OutTypeOK
  <2>1. OutTypeOK'
    BY <2>0, <1>1, OutAssumption
       DEF MakePipes, Goto, OutInv, OutTypeOK, NoCommand, OwnEnds, Ends
  <2>2. EndsHeld' /\ KilledTogether'
    BY <1>1
       DEF MakePipes, Goto, OutInv, OutTypeOK, EndsHeld, KilledTogether, CallPhase,
           OwnEnds, Ends
  <2>3. CommandEnds'
    <3>1. child[b].fds = {} /\ child[b].st = "none" /\ ppid' = ppid
      BY <1>1 DEF MakePipes, OutInv, CommandEnds, Running
    <3>2. \A c \in Bufs \ {b} :
            /\ <<c, "in", "rd">> \in child'[c].fds <=> <<c, "in", "rd">> \in child[c].fds
            /\ <<c, "in", "wr">> \in child'[c].fds <=> <<c, "in", "wr">> \in child[c].fds
      BY <2>0
    <3>3. \A c \in Bufs : child[c].fds = {} => child'[c].fds = {}
      BY <2>0
    <3> QED BY <2>0, <3>1, <3>2, <3>3 DEF OutInv, CommandEnds, Running
  <2>4. CallPhase' /\ NothingLost'
    BY <2>0, <1>1, OutAssumption
       DEF MakePipes, Goto, OutInv, OutTypeOK, CallPhase, NothingLost, CommandEnds,
           Running, NoCommand
  <2> QED BY <2>1, <2>2, <2>3, <2>4 DEF OutInv
<1>2. CASE OpenFails(b)
  <2>1. OutTypeOK'
    BY <1>2, OutAssumption DEF OpenFails, Goto, OutInv, OutTypeOK, NoCommand
  <2>2. EndsHeld' /\ KilledTogether'
    BY <1>2
       DEF OpenFails, Goto, OutInv, OutTypeOK, EndsHeld, KilledTogether, CallPhase,
           OwnEnds, Ends
  <2>3. CommandEnds'
    BY <1>2 DEF OpenFails, Goto, OutInv, OutTypeOK, CommandEnds, Running, NoCommand
  <2>4. CallPhase' /\ NothingLost'
    BY <1>2, OutAssumption
       DEF OpenFails, Goto, OutInv, OutTypeOK, CallPhase, NothingLost, CommandEnds,
           Running, NoCommand
  <2> QED BY <2>1, <2>2, <2>3, <2>4 DEF OutInv
<1>3. CASE Fork(b)
  <2>0. /\ ChildFds(b) \in SUBSET Ends
        /\ <<b, "in", "rd">> \in ChildFds(b) /\ <<b, "in", "wr">> \notin ChildFds(b)
    BY DEF ChildFds, OwnEnds, Ends, OutInv, OutTypeOK
  <2>1. OutTypeOK'
    BY <2>0, <1>3, OutAssumption DEF Fork, Goto, OutInv, OutTypeOK, NoCommand
  <2>2. EndsHeld' /\ KilledTogether'
    BY <1>3
       DEF Fork, Goto, OutInv, OutTypeOK, EndsHeld, KilledTogether, CallPhase,
           OwnEnds, Ends
  <2>3. CommandEnds'
    BY <2>0, <1>3 DEF Fork, Goto, OutInv, OutTypeOK, CommandEnds, Running, NoCommand
  <2>4. CallPhase' /\ NothingLost'
    BY <2>0, <1>3, OutAssumption
       DEF Fork, Goto, OutInv, OutTypeOK, CallPhase, NothingLost, CommandEnds,
           Running, NoCommand
  <2> QED BY <2>1, <2>2, <2>3, <2>4 DEF OutInv
<1>4. CASE StoreWriter(b)
  <2>1. OutTypeOK'
    BY <1>4, OutAssumption DEF StoreWriter, Goto, OutInv, OutTypeOK, NoCommand
  <2>2. EndsHeld' /\ KilledTogether'
    BY <1>4
       DEF StoreWriter, Goto, OutInv, OutTypeOK, EndsHeld, KilledTogether,
           CallPhase, OwnEnds, Ends
  <2>3. CommandEnds'
    BY <1>4 DEF StoreWriter, Goto, OutInv, OutTypeOK, CommandEnds, Running, NoCommand
  <2>4. CallPhase' /\ NothingLost'
    BY <1>4, OutAssumption
       DEF StoreWriter, Goto, OutInv, OutTypeOK, CallPhase, NothingLost,
           CommandEnds, Running, NoCommand
  <2> QED BY <2>1, <2>2, <2>3, <2>4 DEF OutInv
<1>5. CASE StoreReader(b)
  <2>1. OutTypeOK'
    BY <1>5, OutAssumption DEF StoreReader, Goto, OutInv, OutTypeOK, NoCommand
  <2>2. EndsHeld' /\ KilledTogether'
    BY <1>5
       DEF StoreReader, Goto, OutInv, OutTypeOK, EndsHeld, KilledTogether,
           CallPhase, OwnEnds, Ends
  <2>3. CommandEnds'
    BY <1>5 DEF StoreReader, Goto, OutInv, OutTypeOK, CommandEnds, Running, NoCommand
  <2>4. CallPhase' /\ NothingLost'
    BY <1>5, OutAssumption
       DEF StoreReader, Goto, OutInv, OutTypeOK, CallPhase, NothingLost,
           CommandEnds, Running, NoCommand
  <2> QED BY <2>1, <2>2, <2>3, <2>4 DEF OutInv
<1> QED BY <1>1, <1>2, <1>3, <1>4, <1>5 DEF OpenStep

\* sync() reaps the command, goes on to write, or has nothing to write.
LEMMA SyncInv ==
  ASSUME OutInv, NEW b \in Bufs, NEW l \in {"idle", "peof", "close"}, Sync(b, l)
  PROVE  OutInv'
<1>1. CASE child[b].st = "zombie"
  <2>1. Reap(b) /\ Goto(b, l) /\ op[b] = "idle" /\ UNCHANGED <<next, outp, rpipe, error>>
    BY <1>1 DEF Sync
  <2>2. OutTypeOK'
    BY <2>1, OutAssumption DEF Reap, Goto, OutInv, OutTypeOK, NoCommand
  <2>3. EndsHeld' /\ KilledTogether'
    BY <2>1 DEF Reap, Goto, OutInv, OutTypeOK, EndsHeld, KilledTogether, Ends
  <2>4. CommandEnds'
    BY <2>1 DEF Reap, OutInv, OutTypeOK, CommandEnds, Running, NoCommand
  <2>5. CallPhase' /\ NothingLost'
    BY <2>1
       DEF Reap, Goto, OutInv, OutTypeOK, CallPhase, NothingLost, CommandEnds,
           Running, NoCommand
  <2> QED BY <2>2, <2>3, <2>4, <2>5 DEF OutInv
<1>2. CASE child[b].st # "zombie"
  <2>1. /\ UNCHANGED <<fds, child, inp, outp, ppid, wpipe, rpipe, error, pend, put, got, cut>>
        /\ op[b] = "idle"
        /\ \/ pend[b] > 0 /\ Goto(b, "write") /\ next' = [next EXCEPT ![b] = l]
           \/ pend[b] = 0 /\ Goto(b, l) /\ UNCHANGED next
    BY <1>2 DEF Sync
  <2>2. OutTypeOK'
    BY <2>1 DEF Goto, OutInv, OutTypeOK
  <2>3. EndsHeld' /\ KilledTogether'
    BY <2>1 DEF Goto, OutInv, OutTypeOK, EndsHeld, KilledTogether
  <2>4. CommandEnds'
    BY <2>1 DEF OutInv, CommandEnds, Running
  <2>5. CallPhase' /\ NothingLost'
    BY <2>1 DEF Goto, OutInv, OutTypeOK, CallPhase, NothingLost, Running
  <2> QED BY <2>2, <2>3, <2>4, <2>5 DEF OutInv
<1> QED BY <1>1, <1>2

\* The other calls that change a variable at once.
LEMMA CallInv ==
  ASSUME OutInv, NEW b \in Bufs, Put(b) \/ Overflow(b) \/ Exited(b) \/ Get(b)
  PROVE  OutInv'
<1>1. CASE Put(b)
  <2>1. OutTypeOK'
    BY <1>1, OutAssumption DEF Put, Goto, OutInv, OutTypeOK, NoCommand
  <2>2. EndsHeld' /\ KilledTogether'
    BY <1>1 DEF Put, Goto, OutInv, OutTypeOK, EndsHeld, KilledTogether, CallPhase, OwnEnds, Ends
  <2>3. CommandEnds'
    BY <1>1 DEF Put, Goto, OutInv, OutTypeOK, CommandEnds, Running, NoCommand
  <2>4. CallPhase' /\ NothingLost'
    BY <1>1, OutAssumption
       DEF Put, Goto, OutInv, OutTypeOK, CallPhase, NothingLost, CommandEnds,
           Running, NoCommand
  <2> QED BY <2>1, <2>2, <2>3, <2>4 DEF OutInv
<1>2. CASE Overflow(b)
  <2>1. OutTypeOK'
    BY <1>2, OutAssumption DEF Overflow, Goto, OutInv, OutTypeOK, NoCommand
  <2>2. EndsHeld' /\ KilledTogether'
    BY <1>2
       DEF Overflow, Goto, OutInv, OutTypeOK, EndsHeld, KilledTogether, CallPhase,
           OwnEnds, Ends
  <2>3. CommandEnds'
    BY <1>2 DEF Overflow, Goto, OutInv, OutTypeOK, CommandEnds, Running, NoCommand
  <2>4. CallPhase' /\ NothingLost'
    BY <1>2, OutAssumption
       DEF Overflow, Goto, OutInv, OutTypeOK, CallPhase, NothingLost, CommandEnds,
           Running, NoCommand
  <2> QED BY <2>1, <2>2, <2>3, <2>4 DEF OutInv
<1>3. CASE Exited(b)
  <2>1. OutTypeOK'
    BY <1>3, OutAssumption DEF Exited, Goto, Reap, OutInv, OutTypeOK, NoCommand
  <2>2. EndsHeld' /\ KilledTogether'
    BY <1>3
       DEF Exited, Goto, Reap, OutInv, OutTypeOK, EndsHeld, KilledTogether,
           CallPhase, OwnEnds, Ends
  <2>3. CommandEnds'
    BY <1>3 DEF Exited, Goto, Reap, OutInv, OutTypeOK, CommandEnds, Running, NoCommand
  <2>4. CallPhase' /\ NothingLost'
    BY <1>3, OutAssumption
       DEF Exited, Goto, Reap, OutInv, OutTypeOK, CallPhase, NothingLost,
           CommandEnds, Running, NoCommand
  <2> QED BY <2>1, <2>2, <2>3, <2>4 DEF OutInv
<1>4. CASE Get(b)
  <2>1. OutTypeOK'
    BY <1>4, OutAssumption DEF Get, Goto, object, OutInv, OutTypeOK, NoCommand
  <2>2. EndsHeld' /\ KilledTogether'
    BY <1>4
       DEF Get, Goto, object, OutInv, OutTypeOK, EndsHeld, KilledTogether,
           CallPhase, OwnEnds, Ends
  <2>3. CommandEnds'
    BY <1>4 DEF Get, Goto, object, OutInv, OutTypeOK, CommandEnds, Running, NoCommand
  <2>4. CallPhase' /\ NothingLost'
    BY <1>4, OutAssumption
       DEF Get, Goto, object, OutInv, OutTypeOK, CallPhase, NothingLost,
           CommandEnds, Running, NoCommand
  <2> QED BY <2>1, <2>2, <2>3, <2>4 DEF OutInv
<1> QED BY <1>1, <1>2, <1>3, <1>4 DEF Call

\* write() returns, is interrupted, or meets a pipe nobody reads.
LEMMA WriteInv ==
  ASSUME OutInv, NEW b \in Bufs, WriteStep(b) \/ WriteInterrupted(b)
  PROVE  OutInv'
<1>1. CASE WriteDone(b)
  <2>1. OutTypeOK'
    BY <1>1, OutAssumption DEF WriteDone, Goto, OutInv, OutTypeOK, NoCommand
  <2>2. EndsHeld' /\ KilledTogether'
    BY <1>1
       DEF WriteDone, Goto, OutInv, OutTypeOK, EndsHeld, KilledTogether, CallPhase,
           OwnEnds, Ends
  <2>3. CommandEnds'
    BY <1>1 DEF WriteDone, Goto, OutInv, OutTypeOK, CommandEnds, Running, NoCommand
  <2>4. CallPhase' /\ NothingLost'
    BY <1>1, OutAssumption
       DEF WriteDone, Goto, OutInv, OutTypeOK, CallPhase, NothingLost, CommandEnds,
           Running, NoCommand
  <2> QED BY <2>1, <2>2, <2>3, <2>4 DEF OutInv
<1>2. CASE WriteInterrupted(b)
  <2>1. OutTypeOK'
    BY <1>2, OutAssumption DEF WriteInterrupted, Goto, OutInv, OutTypeOK, NoCommand
  <2>2. EndsHeld' /\ KilledTogether'
    BY <1>2
       DEF WriteInterrupted, Goto, OutInv, OutTypeOK, EndsHeld, KilledTogether,
           CallPhase, OwnEnds, Ends
  <2>3. CommandEnds'
    BY <1>2 DEF WriteInterrupted, Goto, OutInv, OutTypeOK, CommandEnds, Running, NoCommand
  <2>4. CallPhase' /\ NothingLost'
    BY <1>2, OutAssumption
       DEF WriteInterrupted, Goto, OutInv, OutTypeOK, CallPhase, NothingLost,
           CommandEnds, Running, NoCommand
  <2> QED BY <2>1, <2>2, <2>3, <2>4 DEF OutInv
<1>3. CASE WriteBroken(b)
  <2>1. OutTypeOK'
    BY <1>3, OutAssumption DEF WriteBroken, Goto, OutInv, OutTypeOK, NoCommand
  <2>2. EndsHeld' /\ KilledTogether'
    BY <1>3
       DEF WriteBroken, Goto, OutInv, OutTypeOK, EndsHeld, KilledTogether,
           CallPhase, OwnEnds, Ends
  <2>3. CommandEnds'
    BY <1>3 DEF WriteBroken, Goto, OutInv, OutTypeOK, CommandEnds, Running, NoCommand
  <2>4. CallPhase' /\ NothingLost'
    BY <1>3, OutAssumption
       DEF WriteBroken, Goto, OutInv, OutTypeOK, CallPhase, NothingLost,
           CommandEnds, Running, NoCommand
  <2> QED BY <2>1, <2>2, <2>3, <2>4 DEF OutInv
<1> QED BY <1>1, <1>2, <1>3 DEF WriteStep

\* The end of peof(), and close().
LEMMA CloseInv ==
  ASSUME OutInv, NEW b \in Bufs, CloseStep(b)
  PROVE  OutInv'
<1>1. CASE PeofEnd(b)
  <2>1. OutTypeOK'
    BY <1>1, OutAssumption DEF PeofEnd, Goto, OutInv, OutTypeOK, NoCommand
  <2>2. EndsHeld' /\ KilledTogether'
    BY <1>1
       DEF PeofEnd, Goto, OutInv, OutTypeOK, EndsHeld, KilledTogether, CallPhase,
           OwnEnds, Ends
  <2>3. CommandEnds'
    BY <1>1 DEF PeofEnd, Goto, OutInv, OutTypeOK, CommandEnds, Running, NoCommand
  <2>4. CallPhase' /\ NothingLost'
    BY <1>1, OutAssumption
       DEF PeofEnd, Goto, OutInv, OutTypeOK, CallPhase, NothingLost, CommandEnds,
           Running, NoCommand
  <2> QED BY <2>1, <2>2, <2>3, <2>4 DEF OutInv
<1>2. CASE CloseWriter(b)
  <2>1. OutTypeOK'
    BY <1>2, OutAssumption DEF CloseWriter, Goto, OutInv, OutTypeOK, NoCommand
  <2>2. EndsHeld' /\ KilledTogether'
    BY <1>2
       DEF CloseWriter, Goto, OutInv, OutTypeOK, EndsHeld, KilledTogether,
           CallPhase, OwnEnds, Ends
  <2>3. CommandEnds'
    BY <1>2 DEF CloseWriter, Goto, OutInv, OutTypeOK, CommandEnds, Running, NoCommand
  <2>4. CallPhase' /\ NothingLost'
    BY <1>2, OutAssumption
       DEF CloseWriter, Goto, OutInv, OutTypeOK, CallPhase, NothingLost,
           CommandEnds, Running, NoCommand
  <2> QED BY <2>1, <2>2, <2>3, <2>4 DEF OutInv
<1>3. CASE CloseReader(b)
  <2>1. OutTypeOK'
    BY <1>3, OutAssumption DEF CloseReader, Goto, OutInv, OutTypeOK, NoCommand
  <2>2. EndsHeld' /\ KilledTogether'
    BY <1>3
       DEF CloseReader, Goto, OutInv, OutTypeOK, EndsHeld, KilledTogether,
           CallPhase, OwnEnds, Ends
  <2>3. CommandEnds'
    BY <1>3 DEF CloseReader, Goto, OutInv, OutTypeOK, CommandEnds, Running, NoCommand
  <2>4. CallPhase' /\ NothingLost'
    BY <1>3, OutAssumption
       DEF CloseReader, Goto, OutInv, OutTypeOK, CallPhase, NothingLost,
           CommandEnds, Running, NoCommand
  <2> QED BY <2>1, <2>2, <2>3, <2>4 DEF OutInv
<1>4. CASE Wait(b)
  <2>1. OutTypeOK'
    BY <1>4, OutAssumption DEF Wait, Goto, Reap, OutInv, OutTypeOK, NoCommand
  <2>2. EndsHeld' /\ KilledTogether'
    BY <1>4
       DEF Wait, Goto, Reap, OutInv, OutTypeOK, EndsHeld, KilledTogether, CallPhase,
           OwnEnds, Ends
  <2>3. CommandEnds'
    BY <1>4 DEF Wait, Goto, Reap, OutInv, OutTypeOK, CommandEnds, Running, NoCommand
  <2>4. CallPhase' /\ NothingLost'
    BY <1>4, OutAssumption
       DEF Wait, Goto, Reap, OutInv, OutTypeOK, CallPhase, NothingLost, CommandEnds,
           Running, NoCommand
  <2> QED BY <2>1, <2>2, <2>3, <2>4 DEF OutInv
<1> QED BY <1>1, <1>2, <1>3, <1>4 DEF CloseStep

\* The command's steps.
LEMMA FilterInv ==
  ASSUME OutInv, NEW b \in Bufs, Filter(b) \/ ChildEnds(b)
  PROVE  OutInv'
<1>1. CASE ChildRead(b)
  <2>0. /\ child' \in [Bufs -> [st : {"none", "run", "echo", "zombie"}, fds : SUBSET Ends]]
        /\ child'[b].st \in {"run", "echo"} /\ child[b].st \in {"run", "echo"}
        /\ child'[b].fds = child[b].fds
        /\ \A c \in Bufs \ {b} : child'[c] = child[c]
    BY <1>1 DEF ChildRead, OutInv, OutTypeOK
  <2>1. OutTypeOK'
    <3>1. inp' \in [Bufs -> 0..PipeCap] /\ got' \in [Bufs -> Nat]
      BY <1>1, OutAssumption DEF ChildRead, OutInv, OutTypeOK
    <3>2. UNCHANGED <<fds, outp, op, next, ppid, wpipe, rpipe, error, pend, put, cut>>
      BY <1>1 DEF ChildRead, object
    <3> QED BY <2>0, <3>1, <3>2 DEF OutInv, OutTypeOK
  <2>2. EndsHeld' /\ KilledTogether'
    BY <1>1
       DEF ChildRead, Goto, object, OutInv, OutTypeOK, EndsHeld, KilledTogether,
           CallPhase, OwnEnds, Ends
  <2>3. CommandEnds'
    BY <2>0, <1>1
       DEF ChildRead, Goto, object, OutInv, OutTypeOK, CommandEnds, Running,
           NoCommand
  <2>4. CallPhase' /\ NothingLost'
    <3>1. /\ inp' = [inp EXCEPT ![b] = inp[b] - 1] /\ got' = [got EXCEPT ![b] = got[b] + 1]
          /\ UNCHANGED <<op, ppid, wpipe, pend, put, cut>>
          /\ ppid[b] /\ Running(b) /\ inp[b] > 0
      BY <1>1, <2>0 DEF ChildRead, object, OutInv, CommandEnds, Running
    <3>2. /\ inp \in [Bufs -> Nat] /\ got \in [Bufs -> Nat] /\ put \in [Bufs -> Nat]
          /\ pend \in [Bufs -> Nat]
      BY OutAssumption DEF OutInv, OutTypeOK
    <3>3. \A c \in Bufs : Running(c)' <=> Running(c)
      BY <2>0 DEF Running
    <3>4. CallPhase'
      BY <3>1, <3>2, <3>3 DEF OutInv, CallPhase
    <3>5. NothingLost'
      BY <3>1, <3>2, <3>3 DEF OutInv, NothingLost
    <3> QED BY <3>4, <3>5
  <2> QED BY <2>1, <2>2, <2>3, <2>4 DEF OutInv
<1>2. CASE ChildEof(b)
  <2>1. OutTypeOK'
    BY <1>2, OutAssumption DEF ChildEof, Goto, object, Gone, OutInv, OutTypeOK, NoCommand
  <2>2. EndsHeld' /\ KilledTogether'
    BY <1>2
       DEF ChildEof, Goto, object, Gone, OutInv, OutTypeOK, EndsHeld,
           KilledTogether, CallPhase, OwnEnds, Ends
  <2>3. CommandEnds'
    BY <1>2 DEF ChildEof, Goto, object, Gone, OutInv, OutTypeOK, CommandEnds, Running, NoCommand
  <2>4. CallPhase' /\ NothingLost'
    BY <1>2, OutAssumption
       DEF ChildEof, Goto, object, Gone, OutInv, OutTypeOK, CallPhase, NothingLost,
           CommandEnds, Running, NoCommand
  <2> QED BY <2>1, <2>2, <2>3, <2>4 DEF OutInv
<1>3. CASE ChildEcho(b)
  <2>0. /\ child' \in [Bufs -> [st : {"none", "run", "echo", "zombie"}, fds : SUBSET Ends]]
        /\ child'[b].st \in {"run", "echo"} /\ child[b].st \in {"run", "echo"}
        /\ child'[b].fds = child[b].fds
        /\ \A c \in Bufs \ {b} : child'[c] = child[c]
    BY <1>3 DEF ChildEcho, OutInv, OutTypeOK
  <2>1. OutTypeOK'
    <3>1. outp[b] + 1 \in 0..PipeCap
      BY <1>3, OutAssumption DEF ChildEcho, OutInv, OutTypeOK
    <3>2. outp' = [outp EXCEPT ![b] = outp[b] + 1] /\ UNCHANGED <<fds, inp, object, got>>
      BY <1>3 DEF ChildEcho
    <3> QED BY <2>0, <3>1, <3>2 DEF object, OutInv, OutTypeOK
  <2>2. EndsHeld' /\ KilledTogether'
    BY <1>3
       DEF ChildEcho, Goto, object, OutInv, OutTypeOK, EndsHeld, KilledTogether,
           CallPhase, OwnEnds, Ends
  <2>3. CommandEnds'
    BY <2>0, <1>3
       DEF ChildEcho, Goto, object, OutInv, OutTypeOK, CommandEnds, Running,
           NoCommand
  <2>4. CallPhase' /\ NothingLost'
    BY <2>0, <1>3, OutAssumption
       DEF ChildEcho, Goto, object, OutInv, OutTypeOK, CallPhase, NothingLost,
           CommandEnds, Running, NoCommand
  <2> QED BY <2>1, <2>2, <2>3, <2>4 DEF OutInv
<1>4. CASE ChildSigPipe(b)
  <2>1. OutTypeOK'
    BY <1>4, OutAssumption DEF ChildSigPipe, Goto, object, Gone, OutInv, OutTypeOK, NoCommand
  <2>2. EndsHeld' /\ KilledTogether'
    BY <1>4
       DEF ChildSigPipe, Goto, object, Gone, OutInv, OutTypeOK, EndsHeld,
           KilledTogether, CallPhase, OwnEnds, Ends
  <2>3. CommandEnds'
    BY <1>4
       DEF ChildSigPipe, Goto, object, Gone, OutInv, OutTypeOK, CommandEnds,
           Running, NoCommand
  <2>4. CallPhase' /\ NothingLost'
    BY <1>4, OutAssumption
       DEF ChildSigPipe, Goto, object, Gone, OutInv, OutTypeOK, CallPhase,
           NothingLost, CommandEnds, Running, NoCommand
  <2> QED BY <2>1, <2>2, <2>3, <2>4 DEF OutInv
<1>5. CASE ChildEnds(b)
  <2>1. OutTypeOK'
    BY <1>5, OutAssumption DEF ChildEnds, Goto, object, Gone, OutInv, OutTypeOK, NoCommand
  <2>2. EndsHeld' /\ KilledTogether'
    BY <1>5
       DEF ChildEnds, Goto, object, Gone, OutInv, OutTypeOK, EndsHeld,
           KilledTogether, CallPhase, OwnEnds, Ends
  <2>3. CommandEnds'
    BY <1>5
       DEF ChildEnds, Goto, object, Gone, OutInv, OutTypeOK, CommandEnds, Running,
           NoCommand
  <2>4. CallPhase' /\ NothingLost'
    BY <1>5, OutAssumption
       DEF ChildEnds, Goto, object, Gone, OutInv, OutTypeOK, CallPhase, NothingLost,
           CommandEnds, Running, NoCommand
  <2> QED BY <2>1, <2>2, <2>3, <2>4 DEF OutInv
<1> QED BY <1>1, <1>2, <1>3, <1>4, <1>5 DEF Filter

-----------------------------------------------------------------------------
\* Which ends are open, and where an inserted character is, is inductive.
THEOREM OutInductive == OutSpec => []OutInv
<1>1. OutInit => OutInv
  BY OutAssumption DEF OutInit, OutInv, OutTypeOK, EndsHeld, KilledTogether, CommandEnds,
     CallPhase, NothingLost, Running, NoCommand
<1>2. OutInv /\ [OutNext]_ovars => OutInv'
  <2> SUFFICES ASSUME OutInv, [OutNext]_ovars PROVE OutInv'
    OBVIOUS
  <2>1. CASE UNCHANGED ovars
    BY <2>1 DEF ovars, OutInv, OutTypeOK, EndsHeld, KilledTogether, CommandEnds, CallPhase,
       NothingLost, Running
  <2>2. CASE OutNext
    BY <2>2, OpenInv, SyncInv, CallInv, WriteInv, CloseInv, FilterInv
       DEF OutNext, Call, Flush, Peof, Close
  <2> QED BY <2>1, <2>2
<1> QED BY <1>1, <1>2, PTL DEF OutSpec

\* Every variable of the output side keeps its type.
THEOREM OutTypeCorrect == OutSpec => []OutTypeOK
<1>1. OutInv => OutTypeOK
  BY DEF OutInv
<1> QED BY <1>1, OutInductive, PTL

\* peof() and close() drop nothing of what was inserted before them.
THEOREM Delivered == OutSpec => []NothingLost
<1>1. OutInv => NothingLost
  BY DEF OutInv
<1> QED BY <1>1, OutInductive, PTL

\* SIGPIPE needs a command that has ended.
THEOREM KilledAfterExit == OutSpec => KilledOnlyAfterExit
<1>1. OutInv /\ [OutNext]_ovars =>
        [\A b \in Bufs : op[b] # "killed" /\ op'[b] = "killed" =>
           \E c \in Bufs : op[c] = "write" /\ child[c].st = "zombie"]_ovars
  <2> SUFFICES ASSUME OutInv, OutNext, NEW b \in Bufs, op[b] # "killed", op'[b] = "killed"
               PROVE  \E c \in Bufs : op[c] = "write" /\ child[c].st = "zombie"
    OBVIOUS
  <2>0. /\ op \in [Bufs -> {"idle", "made", "parent", "stored", "write", "peof", "close",
                            "drop", "wait", "killed"}]
        /\ next \in [Bufs -> {"idle", "peof", "close"}]
    BY DEF OutInv, OutTypeOK
  <2>a. ASSUME NEW c \in Bufs, Call(c) PROVE FALSE
    <3>1. ASSUME NEW to \in {"idle", "peof", "close"}, Sync(c, to) PROVE FALSE
      <4>1. op' = [op EXCEPT ![c] = to] \/ op' = [op EXCEPT ![c] = "write"]
        BY <3>1 DEF Sync, Goto
      <4> QED BY <4>1, <2>0
    <3>2. CASE MakePipes(c)
      BY <2>0, <3>2 DEF MakePipes, Goto
    <3>3. CASE Put(c) \/ Overflow(c) \/ Flush(c) \/ Peof(c) \/ Close(c)
      BY <2>0, <3>1, <3>3 DEF Put, Overflow, Flush, Peof, Close, Goto
    <3>4. CASE Exited(c) \/ Get(c)
      BY <3>4 DEF Exited, Get, object
    <3> QED BY <2>a, <3>2, <3>3, <3>4 DEF Call
  <2>b. ASSUME NEW c \in Bufs, OpenStep(c) PROVE FALSE
    BY <2>0, <2>b DEF OpenStep, OpenFails, Fork, StoreWriter, StoreReader, Goto, object
  <2>c. ASSUME NEW c \in Bufs, CloseStep(c) PROVE FALSE
    BY <2>0, <2>c DEF CloseStep, PeofEnd, CloseWriter, CloseReader, Wait, Goto, object
  <2>d. ASSUME NEW c \in Bufs, WriteDone(c) \/ WriteInterrupted(c) PROVE FALSE
    BY <2>0, <2>d DEF WriteDone, WriteInterrupted, Goto, object
  <2>e. ASSUME NEW c \in Bufs, Filter(c) \/ ChildEnds(c) PROVE FALSE
    BY <2>e DEF Filter, ChildRead, ChildEof, ChildEcho, ChildSigPipe, ChildEnds, object
  <2>1. PICK c \in Bufs : WriteBroken(c)
    BY <2>a, <2>b, <2>c, <2>d, <2>e DEF OutNext, WriteStep
  <2>2. op[c] = "write" /\ <<c, "in", "rd">> \notin child[c].fds
    BY <2>1 DEF WriteBroken, HasEnd
  <2>3. child[c].st = "zombie"
    BY <2>2 DEF OutInv, OutTypeOK, CommandEnds, CallPhase, Running
  <2> QED BY <2>2, <2>3
<1> QED BY <1>1, OutInductive, PTL DEF OutSpec, KilledOnlyAfterExit

\* Only another thread's running command can hide the end of the input.
THEOREM GetsEof == OutSpec => []CommandGetsEof
<1>1. OutInv => CommandGetsEof
  <2> SUFFICES ASSUME OutInv, NEW b \in Bufs, op[b] \in {"idle", "drop", "wait"}, Running(b),
                      ~wpipe[b], HasEnd(b, "in", "wr")
               PROVE  Others(b, "in", "wr")
    BY DEF CommandGetsEof
  <2>1. PICK c \in Bufs : <<b, "in", "wr">> \in child[c].fds
    BY DEF HasEnd, OutInv, EndsHeld
  <2>2. c # b /\ Running(c)
    BY <2>1 DEF OutInv, CommandEnds
  <2> QED BY <2>1, <2>2 DEF Others
<1> QED BY <1>1, OutInductive, PTL

\* Only another thread's running command can keep a write() to a command that
\* has ended blocked.
THEOREM WriterFreed == OutSpec => []WriteStuckOnlyByOthers
<1>1. OutInv => WriteStuckOnlyByOthers
  <2> SUFFICES ASSUME OutInv, NEW b \in Bufs, op[b] = "write", child[b].st = "zombie",
                      HasEnd(b, "in", "rd")
               PROVE  Others(b, "in", "rd")
    BY DEF WriteStuckOnlyByOthers
  <2>1. PICK c \in Bufs : <<b, "in", "rd">> \in child[c].fds
    BY DEF HasEnd, OutInv, EndsHeld
  <2>2. c # b /\ Running(c)
    BY <2>1 DEF OutInv, CommandEnds, Running
  <2> QED BY <2>1, <2>2 DEF Others
<1> QED BY <1>1, OutInductive, PTL

\* Only other threads' commands hold on to the ends of a command's input.
THEOREM HeldByOthers == OutSpec => []OnlyOthersHold
BY GetsEof, WriterFreed, PTL DEF OnlyOthersHold
=============================================================================
