-------------------------- MODULE ShellCmd_proofs ---------------------------
(***************************************************************************)
(* Proofs about PStream and ShellCmd, for any number of buffers, worker    *)
(* threads, pipes, opens and characters.                                   *)
(*                                                                         *)
(* The first part is PStream's, whoever uses it: the types under any       *)
(* sequence of calls, and, for clients that close a buffer before they open*)
(* it again, who owns which pipe end.  The second is the handler's: its    *)
(* threads use their stream buffers in that tidy way; each request is      *)
(* answered once, with all of the output, and leaves nothing behind; what  *)
(* is observed of a thread is the service RequestReply promises; and a     *)
(* group of threads can wait for one another only over a full error pipe.  *)
(***************************************************************************)
EXTENDS ShellCmd, TLAPS

-----------------------------------------------------------------------------
(* The stream buffers: type correctness.                                   *)

\* A buffer without a command has a record of one.
LEMMA NoChildType == NoChild \in Commands
BY ConstantsAssumption DEF NoChild, NoPipes, MaybePipe, Commands

\* Every variable has its type at first.
LEMMA TypeInit == Init => TypeOK
BY ConstantsAssumption, NoChildType DEF Init, TypeOK, NoPipes, NullArea, Ops, MaybePipe, Srcs

\* The stream open() or close() turns to next is a stream.
LEMMA FirstType == ASSUME NEW S PROVE First(S) \in Srcs
BY DEF First, Srcs

\* The ends of the pipe just made are ends.
LEMMA PairEndsType == ASSUME NEW b \in Bufs PROVE PairEnds(b) \in SUBSET Ends
BY DEF PairEnds

\* What dies keeps its counters and loses its descriptors.
LEMMA DeadType ==
  ASSUME TypeOK, NEW c \in Bufs
  PROVE  [child EXCEPT ![c] = Dead(@)] \in [Bufs -> Commands]
<1>1. NoPipes \in [Srcs -> MaybePipe]
  BY DEF NoPipes, MaybePipe
<1>2. child[c] \in Commands
  BY DEF TypeOK
<1>3. Dead(child[c]) \in Commands
  BY <1>1, <1>2 DEF Dead, Commands
<1> QED BY <1>3 DEF TypeOK

\* open(), fork() and create_buffers() keep the types.
LEMMA TypeOpen ==
  ASSUME TypeOK, NEW b \in Bufs, OpenStep(b)
  PROVE  TypeOK'
<1>1. ASSUME NEW p \in PipeIds, MakePipe(b, p) PROVE TypeOK'
  BY <1>1, FirstType, ConstantsAssumption DEF MakePipe, TypeOK, Ends, MaybePipe
<1>2. ASSUME OpenFails(b) PROVE TypeOK'
  BY <1>2 DEF OpenFails, TypeOK, NoPipes, MaybePipe, Ops
<1>3. ASSUME Fork(b) PROVE TypeOK'
  <2>1. ChildFds(b) \in SUBSET Ends
    BY PairEndsType DEF TypeOK, ChildFds
  <2>2. [st |-> "run", fds |-> ChildFds(b), std |-> pair[b],
         left |-> Budget, wrote |-> [s \in Srcs |-> 0]]
          \in Commands
    BY <2>1, ConstantsAssumption DEF TypeOK, Commands
  <2>3. child' \in [Bufs -> Commands]
    BY <1>3, <2>2 DEF Fork, TypeOK
  <2> QED BY <1>3, <2>3 DEF Fork, TypeOK, Ops
<1>4. ASSUME StoreEnd(b) PROVE TypeOK'
  <2> DEFINE s == First(todo[b])
  <2>1. s \in Srcs
    BY FirstType
  <2>2. pair[b][s] \in MaybePipe /\ None \in MaybePipe
    BY <2>1 DEF TypeOK, MaybePipe
  <2> HIDE DEF s
  <2>3. rpipe' \in [Bufs -> [Srcs -> MaybePipe]]
    BY <1>4, <2>1, <2>2 DEF StoreEnd, TypeOK, s
  <2>4. pair' \in [Bufs -> [Srcs -> MaybePipe]]
    BY <1>4, <2>1, <2>2 DEF StoreEnd, TypeOK, s
  <2>5. fds' \in SUBSET Ends /\ todo' \in [Bufs -> SUBSET Srcs]
    BY <1>4 DEF StoreEnd, TypeOK
  <2>6. UNCHANGED <<content, child, op, mode, ppid, rsrc, error, rbuffer, area, saved, opens>>
    BY <1>4 DEF StoreEnd
  <2> QED BY <2>3, <2>4, <2>5, <2>6 DEF TypeOK
<1>5. ASSUME CreateBuffers(b) PROVE TypeOK'
  BY <1>5, FirstType DEF CreateBuffers, TypeOK, Ops, kernel
<1> QED BY <1>1, <1>2, <1>3, <1>4, <1>5 DEF OpenStep

\* So does wait(),
LEMMA TypeReap ==
  ASSUME TypeOK, NEW b \in Bufs, Reap(b)
  PROVE  /\ child' \in [Bufs -> Commands]
         /\ ppid' \in [Bufs -> {"unset", "child", "reaped"}]
<1>1. NoChild \in Commands
  BY NoChildType
<1> QED BY <1>1 DEF Reap, TypeOK

\* close(),
LEMMA TypeClose ==
  ASSUME TypeOK, NEW b \in Bufs, CloseStep(b)
  PROVE  TypeOK'
<1>1. ASSUME CloseEnd(b) PROVE TypeOK'
  BY <1>1 DEF CloseEnd, TypeOK, MaybePipe
<1>2. ASSUME CloseWait(b) PROVE TypeOK'
  BY <1>2 DEF CloseWait, TypeOK, kernel, Ops
<1>3. ASSUME Wait(b) PROVE TypeOK'
  BY <1>3, TypeReap DEF Wait, TypeOK, Ops
<1> QED BY <1>1, <1>2, <1>3 DEF CloseStep

\* a step of a command, which needs that its budget is not exceeded,
LEMMA TypeChild ==
  ASSUME TypeOK, CommandsConsistent, NEW c \in Bufs, ChildStep(c)
  PROVE  TypeOK'
<1>1. ASSUME NEW s \in Srcs, ChildStartWrite(c, s) PROVE TypeOK'
  <2>1. child[c] \in Commands /\ s \in {"none", "run", "out", "err", "zombie"}
    BY DEF TypeOK, Srcs
  <2>2. [child[c] EXCEPT !.st = s] \in Commands
    BY <2>1 DEF Commands
  <2> QED BY <1>1, <2>2 DEF ChildStartWrite, TypeOK, object
<1>2. ASSUME NEW s \in Srcs, ChildWrite(c, s) PROVE TypeOK'
  <2> DEFINE p == child[c].std[s]
  <2>1. child[c] \in Commands /\ p \in PipeIds /\ child[c].left > 0
    BY <1>2 DEF ChildWrite, TypeOK, CommandsConsistent, Commands, MaybePipe
  <2>2. child[c].left - 1 \in 0..Budget /\ child[c].wrote[s] + 1 \in 0..Budget
    <3>1. child[c].left + child[c].wrote["out"] + child[c].wrote["err"] <= Budget
      BY DEF CommandsConsistent
    <3> HIDE DEF p
    <3> QED BY <2>1, <3>1, ConstantsAssumption DEF Commands, Srcs
  <2>3. [child[c].wrote EXCEPT ![s] = @ + 1] \in [Srcs -> 0..Budget]
    BY <2>1, <2>2 DEF Commands
  <2>4. [child[c] EXCEPT !.st = "run", !.left = @ - 1, !.wrote[s] = @ + 1] \in Commands
    BY <2>1, <2>2, <2>3 DEF Commands
  <2>5. content[p] \in 0..PipeCap /\ content[p] < PipeCap
    BY <1>2, <2>1 DEF ChildWrite, TypeOK
  <2>6. content[p] + 1 \in 0..PipeCap
    BY <2>5, ConstantsAssumption
  <2>7. child' \in [Bufs -> Commands]
    BY <1>2, <2>4 DEF ChildWrite, TypeOK
  <2>8. content' \in [PipeIds -> 0..PipeCap]
    BY <1>2, <2>6 DEF ChildWrite, TypeOK
  <2> QED BY <1>2, <2>7, <2>8 DEF ChildWrite, TypeOK, object
<1>3. ASSUME NEW s \in Srcs, ChildSigPipe(c, s) PROVE TypeOK'
  BY <1>3, DeadType DEF ChildSigPipe, TypeOK, object
<1>4. ASSUME NEW s \in Srcs, ChildClose(c, s) PROVE TypeOK'
  <2> DEFINE e == <<child[c].std[s], "wr">>
  <2>1. child[c] \in Commands
    BY DEF TypeOK
  <2>2. [child[c] EXCEPT !.fds = @ \ {e}, !.std[s] = None] \in Commands
    <3>1. child[c].fds \ {e} \in SUBSET Ends
      BY <2>1 DEF Commands
    <3>2. [child[c].std EXCEPT ![s] = None] \in [Srcs -> MaybePipe]
      BY <2>1 DEF Commands, MaybePipe
    <3> HIDE DEF e
    <3> QED BY <2>1, <3>1, <3>2 DEF Commands
  <2> QED BY <1>4, <2>2 DEF ChildClose, TypeOK, object
<1>5. ASSUME ChildExit(c) PROVE TypeOK'
  BY <1>5, DeadType DEF ChildExit, TypeOK, object
<1> QED BY <1>1, <1>2, <1>3, <1>4, <1>5 DEF ChildStep

\* and whatever a client calls.
LEMMA TypeClient ==
  ASSUME TypeOK, NEW b \in Bufs, ClientStep(b)
  PROVE  TypeOK'
<1>1. ASSUME NEW m \in Modes, Open(b, m) PROVE TypeOK'
  BY <1>1, ConstantsAssumption DEF Open, TypeOK, kernel, Ops
<1>2. ASSUME NEW s \in Srcs, ReadErr(b, s) PROVE TypeOK'
  BY <1>2 DEF ReadErr, TypeOK, kernel
<1>3. ASSUME Consume(b) PROVE TypeOK'
  <2>1. area[b] \in [buf : Nat, avail : Nat]
    BY DEF TypeOK
  <2>2. area[b].avail - 1 \in Nat
    BY <1>3, <2>1 DEF Consume
  <2>3. [area[b] EXCEPT !.avail = @ - 1] \in [buf : Nat, avail : Nat]
    BY <2>1, <2>2
  <2> QED BY <1>3, <2>3 DEF Consume, TypeOK, kernel
<1>4. ASSUME FillBuffer(b) PROVE TypeOK'
  <2> DEFINE p == Source(b)
  <2>1. PICK n \in 1..BufSz :
          /\ n <= content[p]
          /\ content' = [content EXCEPT ![p] = @ - n]
          /\ area' = [area EXCEPT ![b] = [buf |-> rbuffer[b][rsrc[b]], avail |-> n]]
    BY <1>4 DEF FillBuffer
  <2>2. p \in PipeIds
    BY <1>4 DEF FillBuffer, TypeOK, Source, MaybePipe
  <2>3. content' \in [PipeIds -> 0..PipeCap]
    <3> HIDE DEF p
    <3>1. content[p] \in 0..PipeCap
      BY <2>2 DEF TypeOK
    <3>2. content[p] - n \in 0..PipeCap
      BY <2>1, <3>1, ConstantsAssumption
    <3> QED BY <2>1, <3>2 DEF TypeOK
  <2>4. [buf |-> rbuffer[b][rsrc[b]], avail |-> n] \in [buf : Nat, avail : Nat]
    BY ConstantsAssumption DEF TypeOK
  <2>5. area' \in [Bufs -> [buf : Nat, avail : Nat]]
    BY <2>1, <2>4 DEF TypeOK
  <2> QED BY <1>4, <2>3, <2>5 DEF FillBuffer, TypeOK
<1>5. ASSUME FillBufferEof(b) PROVE TypeOK'
  BY <1>5 DEF FillBufferEof, TypeOK, kernel, NullArea
<1>6. ASSUME Exited(b) PROVE TypeOK'
  BY <1>6, TypeReap DEF Exited, TypeOK
<1>7. ASSUME Kill(b) PROVE TypeOK'
  BY <1>7, DeadType DEF Kill, TypeOK, object
<1>8. ASSUME CloseBegin(b) PROVE TypeOK'
  <2>1. /\ child' \in [Bufs -> Commands]
        /\ ppid' \in [Bufs -> {"unset", "child", "reaped"}]
    BY <1>8, TypeReap DEF CloseBegin, TypeOK
  <2> QED BY <1>8, <2>1 DEF CloseBegin, TypeOK, NullArea, Ops
<1> QED BY <1>1, <1>2, <1>3, <1>4, <1>5, <1>6, <1>7, <1>8 DEF ClientStep, ReadStep

\* Every step keeps the types.
LEMMA TypeStep ==
  ASSUME TypeOK, CommandsConsistent, [Next]_vars
  PROVE  TypeOK'
<1>1. CASE UNCHANGED vars
  BY <1>1 DEF vars, TypeOK
<1>2. CASE Next
  BY <1>2, TypeOpen, TypeClose, TypeChild, TypeClient DEF Next
<1> QED BY <1>1, <1>2

\* A step that leaves a command alone, reaps it or ends it keeps it consistent.
Consistent(c) ==
  /\ c.st \in Srcs => c.left > 0 /\ c.std[c.st] # None
  /\ c.left + c.wrote["out"] + c.wrote["err"] <= Budget
  /\ c.fds # {} => c.st \in {"run", "out", "err"}
  /\ \A s \in Srcs : c.std[s] # None => <<c.std[s], "rd">> \notin c.fds

\* No command has no budget to exceed.
LEMMA ConsistentNoChild == Consistent(NoChild)
BY ConstantsAssumption DEF Consistent, NoChild, Srcs

\* No command exceeds its budget or writes to a stream it does not have.
LEMMA ConsistentStep ==
  ASSUME TypeOK, CommandsConsistent, [Next]_vars
  PROVE  CommandsConsistent'
<1>0. \A c \in Bufs : child[c] \in Commands /\ Consistent(child[c])
  BY DEF TypeOK, CommandsConsistent, Consistent, Running
<1>1. SUFFICES ASSUME NEW c \in Bufs PROVE Consistent(child'[c])
  BY DEF CommandsConsistent, Consistent, Running
<1>2. CASE child' = child
  BY <1>0, <1>2
<1>3. ASSUME NEW b \in Bufs, Reap(b) PROVE Consistent(child'[c])
  BY <1>0, <1>3, ConsistentNoChild DEF Reap, TypeOK
<1>4. ASSUME NEW b \in Bufs, child' = [child EXCEPT ![b] = Dead(@)]
      PROVE  Consistent(child'[c])
  <2>1. Consistent(Dead(child[b]))
    BY <1>0 DEF Dead, Consistent, Commands, Srcs
  <2> QED BY <1>0, <1>4, <2>1 DEF TypeOK
<1>5. ASSUME NEW b \in Bufs, Fork(b) PROVE Consistent(child'[c])
  <2>1. CASE c # b
    BY <1>0, <1>5, <2>1 DEF Fork, TypeOK
  <2>2. CASE c = b
    <3>1. child'[c] = [st |-> "run", fds |-> ChildFds(b), std |-> pair[b],
                       left |-> Budget, wrote |-> [s \in Srcs |-> 0]]
      BY <1>5, <2>2 DEF Fork, TypeOK
    <3>2. ASSUME NEW s \in Srcs, pair[b][s] # None
          PROVE  <<pair[b][s], "rd">> \notin ChildFds(b)
      <4>1. <<pair[b][s], "rd">> \in PairEnds(b)
        BY <3>2 DEF PairEnds, Ends, TypeOK, MaybePipe
      <4> QED BY <4>1 DEF ChildFds
    <3> QED BY <3>1, <3>2, ConstantsAssumption DEF Consistent, Srcs
  <2> QED BY <2>1, <2>2
<1>6. ASSUME NEW b \in Bufs, NEW s \in Srcs, ChildStartWrite(b, s)
      PROVE  Consistent(child'[c])
  <2>1. CASE c # b
    BY <1>0, <1>6, <2>1 DEF ChildStartWrite, TypeOK
  <2>2. CASE c = b
    <3>1. child'[c] = [child[c] EXCEPT !.st = s]
      BY <1>6, <2>2 DEF ChildStartWrite, TypeOK
    <3>2. /\ child'[c].st = s /\ s \in {"run", "out", "err"}
          /\ child'[c].left = child[c].left /\ child'[c].std = child[c].std
          /\ child'[c].wrote = child[c].wrote
      BY <1>0, <3>1 DEF Commands, Srcs
    <3> QED BY <1>0, <1>6, <2>2, <3>2 DEF ChildStartWrite, Consistent
  <2> QED BY <2>1, <2>2
<1>7. ASSUME NEW b \in Bufs, NEW s \in Srcs, ChildWrite(b, s)
      PROVE  Consistent(child'[c])
  <2>1. CASE c # b
    BY <1>0, <1>7, <2>1 DEF ChildWrite, TypeOK
  <2>2. CASE c = b
    <3>1. child'[c] = [child[c] EXCEPT !.st = "run", !.left = @ - 1, !.wrote[s] = @ + 1]
      BY <1>7, <2>2 DEF ChildWrite, TypeOK
    <3>2. /\ child'[c].st = "run" /\ child'[c].left = child[c].left - 1
          /\ child'[c].std = child[c].std /\ child'[c].fds = child[c].fds
          /\ child'[c].wrote = [child[c].wrote EXCEPT ![s] = @ + 1]
      BY <1>0, <3>1 DEF Commands
    <3>3. child'[c].left + child'[c].wrote["out"] + child'[c].wrote["err"] <= Budget
      <4>1. /\ child[c].left \in Nat
            /\ child[c].wrote["out"] \in Nat /\ child[c].wrote["err"] \in Nat
        BY <1>0, ConstantsAssumption DEF Commands, Srcs
      <4>2. child[c].left + child[c].wrote["out"] + child[c].wrote["err"] <= Budget
        BY <1>0 DEF Consistent
      <4> QED BY <1>0, <3>2, <4>1, <4>2, ConstantsAssumption DEF Commands, Srcs
    <3> QED BY <1>0, <3>2, <3>3 DEF Consistent, Srcs
  <2> QED BY <2>1, <2>2
<1>8. ASSUME NEW b \in Bufs, NEW s \in Srcs, ChildClose(b, s)
      PROVE  Consistent(child'[c])
  <2>1. CASE c # b
    BY <1>0, <1>8, <2>1 DEF ChildClose, TypeOK
  <2>2. CASE c = b
    <3>1. child'[c] = [child[c] EXCEPT !.fds = @ \ {<<child[c].std[s], "wr">>}, !.std[s] = None]
      BY <1>8, <2>2 DEF ChildClose, TypeOK
    <3>2. /\ child'[c].st = child[c].st /\ child'[c].left = child[c].left
          /\ child'[c].wrote = child[c].wrote
          /\ child'[c].fds = child[c].fds \ {<<child[c].std[s], "wr">>}
          /\ child'[c].std = [child[c].std EXCEPT ![s] = None]
      BY <1>0, <2>2, <3>1 DEF Commands
    <3>3. child[c].st = "run"
      BY <1>8, <2>2 DEF ChildClose
    <3>4. \A t \in Srcs : child'[c].std[t] # None => child'[c].std[t] = child[c].std[t]
      BY <1>0, <3>2 DEF Commands
    <3> QED BY <1>0, <3>2, <3>3, <3>4 DEF Consistent, Srcs
  <2> QED BY <2>1, <2>2
<1>9. ASSUME NEW b \in Bufs, ClientStep(b) PROVE Consistent(child'[c])
  BY <1>2, <1>3, <1>4, <1>9
     DEF ClientStep, ReadStep, Open, ReadErr, Consume, FillBuffer, FillBufferEof,
         Exited, Kill, CloseBegin, kernel
<1>10. ASSUME NEW b \in Bufs, OpenStep(b) PROVE Consistent(child'[c])
  BY <1>2, <1>5, <1>10 DEF OpenStep, MakePipe, OpenFails, StoreEnd, CreateBuffers, kernel
<1>11. ASSUME NEW b \in Bufs, CloseStep(b) PROVE Consistent(child'[c])
  BY <1>2, <1>3, <1>11 DEF CloseStep, CloseEnd, CloseWait, Wait, kernel
<1>12. ASSUME NEW b \in Bufs, ChildStep(b) PROVE Consistent(child'[c])
  BY <1>4, <1>6, <1>7, <1>8, <1>12 DEF ChildStep, ChildSigPipe, ChildExit
<1>13. CASE UNCHANGED vars
  BY <1>2, <1>13 DEF vars
<1> QED BY <1>9, <1>10, <1>11, <1>12, <1>13 DEF Next

\* At first there is no command.
LEMMA ConsistentInit == Init => CommandsConsistent
BY ConsistentNoChild DEF Init, CommandsConsistent, Consistent, Running

\* Whatever calls its clients make, in any order, on any number of threads,
\* and whatever the commands do, the buffers' members keep their types: no
\* pipe ever holds more than its capacity and no command writes past its end.
THEOREM TypeCorrect == Spec => []TypeOK
<1>1. Init => TypeOK /\ CommandsConsistent
  BY TypeInit, ConsistentInit
<1>2. TypeOK /\ CommandsConsistent /\ [Next]_vars => (TypeOK /\ CommandsConsistent)'
  BY TypeStep, ConsistentStep
<1> QED BY <1>1, <1>2, PTL DEF Spec

-----------------------------------------------------------------------------
(* Who owns which pipe end.                                                *)

\* The stream turned to next is one of those left.
LEMMA FirstIn == ASSUME NEW S \in SUBSET Srcs, S # {} PROVE First(S) \in S
BY DEF First, Srcs

\* A pipe's number is not the value that means no pipe.
LEMMA NotNone == ASSUME NEW p \in PipeIds PROVE p # None
BY ConstantsAssumption

\* At first nothing is open.
LEMMA OwnershipInit == Init => Ownership
BY NotNone
   DEF Init, Ownership, PhasesConsistent, NoDescriptorLeak, EndsOwnedOnce, PairsOwned,
       StreamsDiffer, StreamsHeld, OwnOutputOnly, NoPipes, NoChild

\* As long as nobody opens a stream, ownership of the pipes can only shrink.
LEMMA ChildrenShrink ==
  ASSUME Ownership, UNCHANGED <<fds, pair, rpipe>>,
         \A c \in Bufs : \A s \in Srcs :
           child'[c].std[s] # None => child'[c].std[s] = child[c].std[s]
  PROVE  NoDescriptorLeak' /\ EndsOwnedOnce' /\ PairsOwned' /\ StreamsDiffer' /\ OwnOutputOnly'
<1>1. NoDescriptorLeak'
  BY DEF Ownership, NoDescriptorLeak
<1>2. EndsOwnedOnce'
  BY DEF Ownership, EndsOwnedOnce
<1>3. PairsOwned'
  BY DEF Ownership, PairsOwned
<1>4. StreamsDiffer'
  BY DEF Ownership, StreamsDiffer
<1>5. OwnOutputOnly'
  BY DEF Ownership, OwnOutputOnly
<1> QED BY <1>1, <1>2, <1>3, <1>4, <1>5

\* A command that is reaped or that dies loses its streams and its ends.
LEMMA ChildGone ==
  ASSUME TypeOK, Ownership, NEW b \in Bufs,
         Reap(b) \/ child' = [child EXCEPT ![b] = Dead(@)]
  PROVE  /\ \A c \in Bufs : \A s \in Srcs :
              child'[c].std[s] # None => child'[c].std[s] = child[c].std[s]
         /\ StreamsHeld'
<1>1. \A c \in Bufs \ {b} : child'[c] = child[c]
  BY DEF Reap, TypeOK
<1>2. \A s \in Srcs : child'[b].std[s] = None
  <2>1. CASE Reap(b)
    <3>1. child'[b] = NoChild
      BY <2>1 DEF Reap, TypeOK
    <3> QED BY <3>1 DEF NoChild, NoPipes
  <2>2. CASE child' = [child EXCEPT ![b] = Dead(@)]
    <3>1. child'[b] = Dead(child[b]) /\ child[b] \in Commands
      BY <2>2 DEF TypeOK
    <3>2. Dead(child[b]).std = NoPipes
      BY <3>1 DEF Dead, Commands
    <3> QED BY <3>1, <3>2 DEF NoPipes
  <2> QED BY <2>1, <2>2
<1> QED BY <1>1, <1>2 DEF Ownership, StreamsHeld

-----------------------------------------------------------------------------
(* The commands.                                                           *)

\* A command's steps open and close nothing of the parent's.
LEMMA OwnershipChild ==
  ASSUME TypeOK, Ownership, NEW c \in Bufs, ChildStep(c)
  PROVE  Ownership'
<1>1. UNCHANGED <<fds, object>>
  BY DEF ChildStep, ChildStartWrite, ChildWrite, ChildSigPipe, ChildClose, ChildExit
<1>2. PhasesConsistent'
  BY <1>1 DEF Ownership, PhasesConsistent, object
<1>3. /\ \A d \in Bufs : \A t \in Srcs :
           child'[d].std[t] # None => child'[d].std[t] = child[d].std[t]
      /\ StreamsHeld'
  <2>1. ASSUME NEW s \in Srcs, ChildStartWrite(c, s) \/ ChildWrite(c, s) PROVE <1>3
    <3>1. \A d \in Bufs \ {c} : child'[d] = child[d]
      BY <2>1 DEF ChildStartWrite, ChildWrite, TypeOK
    <3>2. child'[c].std = child[c].std /\ child'[c].fds = child[c].fds
      <4>1. CASE ChildStartWrite(c, s)
        BY <4>1 DEF ChildStartWrite, TypeOK, Commands
      <4>2. CASE ChildWrite(c, s)
        BY <4>2 DEF ChildWrite, TypeOK, Commands
      <4> QED BY <2>1, <4>1, <4>2
    <3> QED BY <3>1, <3>2 DEF Ownership, StreamsHeld
  <2>2. ASSUME NEW s \in Srcs, ChildSigPipe(c, s) \/ ChildExit(c) PROVE <1>3
    BY <2>2, ChildGone DEF ChildSigPipe, ChildExit
  <2>3. ASSUME NEW s \in Srcs, ChildClose(c, s) PROVE <1>3
    <3>1. \A d \in Bufs \ {c} : child'[d] = child[d]
      BY <2>3 DEF ChildClose, TypeOK
    <3>2. /\ child'[c].std = [child[c].std EXCEPT ![s] = None]
          /\ child'[c].fds = child[c].fds \ {<<child[c].std[s], "wr">>}
      BY <2>3 DEF ChildClose, TypeOK, Commands
    <3>3. \A t \in Srcs : child'[c].std[t] = IF t = s THEN None ELSE child[c].std[t]
      BY <3>2 DEF TypeOK, Commands
    <3>4. ASSUME NEW t \in Srcs, child'[c].std[t] # None
          PROVE  <<child'[c].std[t], "wr">> \in child'[c].fds
      <4>1. t # s /\ child'[c].std[t] = child[c].std[t]
        BY <3>3, <3>4
      <4>2. child[c].std[t] # child[c].std[s]
        BY <3>4, <4>1 DEF Ownership, StreamsDiffer
      <4>3. <<child[c].std[t], "wr">> \in child[c].fds
        BY <3>4, <4>1 DEF Ownership, StreamsHeld
      <4> QED BY <3>2, <4>1, <4>2, <4>3
    <3> QED BY <3>1, <3>3, <3>4 DEF Ownership, StreamsHeld
  <2> QED BY <2>1, <2>2, <2>3 DEF ChildStep, Srcs
<1> QED BY <1>1, <1>2, <1>3, ChildrenShrink DEF Ownership, object

-----------------------------------------------------------------------------
(* Calls that neither create nor close a pipe.                             *)

\* The calls of a tidy client begin from an unused buffer.
LEMMA OwnershipClient ==
  ASSUME TypeOK, Ownership, NEW b \in Bufs, TidyStep(b)
  PROVE  Ownership'
<1>1. UNCHANGED <<fds, pair, rpipe>>
  BY DEF TidyStep, ClientStep, ReadStep, Open, ReadErr, Consume, FillBuffer,
         FillBufferEof, Exited, Kill, CloseBegin, kernel, object
<1>2. /\ \A c \in Bufs : \A s \in Srcs :
           child'[c].std[s] # None => child'[c].std[s] = child[c].std[s]
      /\ StreamsHeld'
  <2>1. CASE child' = child
    BY <2>1 DEF Ownership, StreamsHeld
  <2>2. CASE Reap(b) \/ child' = [child EXCEPT ![b] = Dead(@)]
    BY <2>2, ChildGone
  <2> QED BY <2>1, <2>2 DEF TidyStep, ClientStep, ReadStep, Open, ReadErr, Consume,
         FillBuffer, FillBufferEof, Exited, Kill, CloseBegin, kernel
<1>3. PhasesConsistent'
  <2>1. ASSUME NEW m \in Modes, Open(b, m) PROVE PhasesConsistent'
    <3>1. rpipe[b] = NoPipes
      BY <2>1 DEF TidyStep, Closed, Open, TypeOK
    <3> QED BY <1>1, <2>1, <3>1 DEF Open, Ownership, PhasesConsistent, NoPipes, TypeOK
  <2>2. CASE CloseBegin(b)
    BY <1>1, <2>2 DEF CloseBegin, Ownership, PhasesConsistent, TypeOK
  <2>3. CASE UNCHANGED <<op, todo>>
    BY <1>1, <2>3 DEF Ownership, PhasesConsistent
  <2> QED BY <2>1, <2>2, <2>3 DEF TidyStep, ClientStep, ReadStep, ReadErr, Consume,
         FillBuffer, FillBufferEof, Exited, Kill, object
<1> QED BY <1>1, <1>2, <1>3, ChildrenShrink DEF Ownership

-----------------------------------------------------------------------------
(* open().                                                                 *)

\* A pipe the kernel hands out is nobody's: neither a variable of a buffer
\* nor a standard stream of a command refers to it.
LEMMA FreshPipe ==
  ASSUME Ownership, NEW p \in PipeIds, PipeFree(p)
  PROVE  \A c \in Bufs : \A t \in Srcs :
           pair[c][t] # p /\ rpipe[c][t] # p /\ child[c].std[t] # p
BY NotNone DEF Ownership, NoDescriptorLeak, StreamsHeld, PipeFree, HasWriter, HasReader

\* pipe() returns ends nobody has.
LEMMA OwnershipMakePipe ==
  ASSUME TypeOK, Ownership, NEW b \in Bufs, NEW p \in PipeIds, MakePipe(b, p)
  PROVE  Ownership'
<1> DEFINE s == First(todo[b])
<1>1. /\ op[b] = "pipes" /\ s \in todo[b] /\ s \in Srcs
      /\ fds' = fds \cup {<<p, "rd">>, <<p, "wr">>}
      /\ pair' = [pair EXCEPT ![b][s] = p]
      /\ todo' = [todo EXCEPT ![b] = @ \ {s}]
      /\ UNCHANGED <<op, rpipe, child>>
  BY FirstIn DEF MakePipe, TypeOK
<1>2. \A c \in Bufs : \A t \in Srcs :
        pair[c][t] # p /\ rpipe[c][t] # p /\ child[c].std[t] # p
  BY FreshPipe DEF MakePipe
<1> HIDE DEF s
<1>3. \A c \in Bufs : \A t \in Srcs :
        pair'[c][t] = IF c = b /\ t = s THEN p ELSE pair[c][t]
  BY <1>1 DEF TypeOK
<1>4. PhasesConsistent'
  BY <1>1, <1>3 DEF Ownership, PhasesConsistent, TypeOK
<1>5. NoDescriptorLeak'
  <2>1. pair[b][s] = None
    BY <1>1 DEF Ownership, PhasesConsistent
  <2> SUFFICES ASSUME NEW q \in PipeIds
      PROVE /\ <<q, "wr">> \in fds' <=> \E c \in Bufs, t \in Srcs : pair'[c][t] = q
            /\ <<q, "rd">> \in fds' <=> \E c \in Bufs, t \in Srcs : q \in {pair'[c][t], rpipe'[c][t]}
    BY DEF NoDescriptorLeak
  <2>2. CASE q = p
    BY <1>1, <1>3, <2>2
  <2>3. CASE q # p
    BY <1>1, <1>3, <2>1, <2>3, NotNone DEF Ownership, NoDescriptorLeak
  <2> QED BY <2>2, <2>3
<1>6. EndsOwnedOnce'
  BY <1>1, <1>2, <1>3 DEF Ownership, EndsOwnedOnce
<1>7. PairsOwned'
  BY <1>1, <1>2, <1>3 DEF Ownership, PairsOwned
<1> QED BY <1>1, <1>4, <1>5, <1>6, <1>7
    DEF Ownership, StreamsDiffer, StreamsHeld, OwnOutputOnly

\* open() that fails has closed the ends of the pipes it made.
LEMMA OwnershipOpenFails ==
  ASSUME TypeOK, Ownership, NEW b \in Bufs, OpenFails(b)
  PROVE  Ownership'
<1>1. \A c \in Bufs : \A t \in Srcs :
        pair'[c][t] = IF c = b THEN None ELSE pair[c][t]
  BY DEF OpenFails, TypeOK, NoPipes
<1>2. PhasesConsistent'
  BY <1>1 DEF OpenFails, Ownership, PhasesConsistent, TypeOK
<1>3. NoDescriptorLeak'
  <2> SUFFICES ASSUME NEW q \in PipeIds
      PROVE /\ <<q, "wr">> \in fds' <=> \E c \in Bufs, t \in Srcs : pair'[c][t] = q
            /\ <<q, "rd">> \in fds' <=> \E c \in Bufs, t \in Srcs : q \in {pair'[c][t], rpipe'[c][t]}
    BY DEF NoDescriptorLeak
  <2>1. \A x \in {"rd", "wr"} : <<q, x>> \in fds' <=>
           <<q, x>> \in fds /\ \A t \in Srcs : pair[b][t] # q
    BY DEF OpenFails, PairEnds, Ends
  <2>2. CASE \E t \in Srcs : pair[b][t] = q
    BY <1>1, <2>1, <2>2, NotNone DEF OpenFails, Ownership, EndsOwnedOnce
  <2>3. CASE \A t \in Srcs : pair[b][t] # q
    BY <1>1, <2>1, <2>3, NotNone DEF OpenFails, Ownership, NoDescriptorLeak
  <2> QED BY <2>2, <2>3
<1> QED BY <1>1, <1>2, <1>3
    DEF OpenFails, Ownership, EndsOwnedOnce, PairsOwned, StreamsDiffer, StreamsHeld, OwnOutputOnly

\* fork() gives the command copies and leaves the parent's table alone.
LEMMA OwnershipFork ==
  ASSUME TypeOK, Ownership, NEW b \in Bufs, Fork(b)
  PROVE  Ownership'
<1>1. \A c \in Bufs \ {b} : child'[c] = child[c]
  BY DEF Fork, TypeOK
<1>2. child'[b].std = pair[b] /\ child'[b].fds = ChildFds(b)
  BY DEF Fork, TypeOK
<1>3. PhasesConsistent'
  BY DEF Fork, Ownership, PhasesConsistent, TypeOK
<1>4. PairsOwned' /\ OwnOutputOnly' /\ StreamsDiffer'
  BY <1>1, <1>2 DEF Fork, Ownership, PairsOwned, OwnOutputOnly, StreamsDiffer, EndsOwnedOnce
<1>5. StreamsHeld'
  <2>1. ASSUME NEW s \in Srcs, pair[b][s] # None
        PROVE  <<pair[b][s], "wr">> \in ChildFds(b)
    BY <2>1 DEF ChildFds, PairEnds, Ends, TypeOK, MaybePipe
  <2> QED BY <1>1, <1>2, <2>1 DEF Ownership, StreamsHeld
<1> QED BY <1>3, <1>4, <1>5 DEF Fork, Ownership, NoDescriptorLeak, EndsOwnedOnce

\* An end is stored and the other one closed.
LEMMA OwnershipStoreEnd ==
  ASSUME TypeOK, Ownership, NEW b \in Bufs, StoreEnd(b)
  PROVE  Ownership'
<1> DEFINE s == First(todo[b])
           p == pair[b][s]
<1>1. /\ op[b] = "parent" /\ s \in todo[b] /\ s \in Srcs
      /\ rpipe' = [rpipe EXCEPT ![b][s] = p]
      /\ fds' = fds \ {<<p, "wr">>}
      /\ pair' = [pair EXCEPT ![b][s] = None]
      /\ todo' = [todo EXCEPT ![b] = @ \ {s}]
      /\ UNCHANGED <<op, child>>
  BY FirstIn DEF StoreEnd, TypeOK
<1> HIDE DEF s
<1>2. p # None /\ rpipe[b][s] = None
  BY <1>1 DEF Ownership, PhasesConsistent
<1>3. \A c \in Bufs : \A t \in Srcs :
        /\ pair'[c][t] = IF c = b /\ t = s THEN None ELSE pair[c][t]
        /\ rpipe'[c][t] = IF c = b /\ t = s THEN p ELSE rpipe[c][t]
  BY <1>1 DEF TypeOK
<1>4. \A c \in Bufs : \A t \in Srcs :
        /\ pair[c][t] = p => c = b /\ t = s
        /\ rpipe[c][t] # p
        /\ child[c].std[t] = p => c = b /\ t = s
  BY <1>1, <1>2 DEF Ownership, EndsOwnedOnce, PairsOwned
<1>5. PhasesConsistent'
  BY <1>1, <1>2, <1>3 DEF Ownership, PhasesConsistent, TypeOK
<1>6. NoDescriptorLeak'
  <2> SUFFICES ASSUME NEW q \in PipeIds
      PROVE /\ <<q, "wr">> \in fds' <=> \E c \in Bufs, t \in Srcs : pair'[c][t] = q
            /\ <<q, "rd">> \in fds' <=> \E c \in Bufs, t \in Srcs : q \in {pair'[c][t], rpipe'[c][t]}
    BY DEF NoDescriptorLeak
  <2>1. CASE q = p
    <3>1. <<p, "wr">> \notin fds' /\ \A c \in Bufs, t \in Srcs : pair'[c][t] # p
      BY <1>1, <1>2, <1>3, <1>4
    <3>2. <<p, "rd">> \in fds
      BY <1>1, <2>1 DEF Ownership, NoDescriptorLeak
    <3>3. <<p, "rd">> \in fds' /\ rpipe'[b][s] = p
      BY <1>1, <1>3, <3>2
    <3> QED BY <1>1, <2>1, <3>1, <3>3
  <2>2. CASE q # p
    BY <1>1, <1>2, <1>3, <2>2, NotNone DEF Ownership, NoDescriptorLeak
  <2> QED BY <2>1, <2>2
<1>7. EndsOwnedOnce'
  BY <1>3, <1>4 DEF Ownership, EndsOwnedOnce
<1>8. PairsOwned' /\ OwnOutputOnly'
  BY <1>1, <1>3, <1>4 DEF Ownership, PairsOwned, OwnOutputOnly
<1> QED BY <1>1, <1>5, <1>6, <1>7, <1>8 DEF Ownership, StreamsDiffer, StreamsHeld

\* Together: every step of open().
LEMMA OwnershipOpen ==
  ASSUME TypeOK, Ownership, NEW b \in Bufs, OpenStep(b)
  PROVE  Ownership'
<1>1. CASE CreateBuffers(b)
  <2>1. UNCHANGED <<fds, child, pair, rpipe, todo>> /\ op' = [op EXCEPT ![b] = "idle"]
    BY <1>1 DEF CreateBuffers, kernel
  <2>2. PhasesConsistent'
    BY <1>1, <2>1 DEF CreateBuffers, Ownership, PhasesConsistent, TypeOK
  <2> QED BY <2>1, <2>2, ChildrenShrink DEF Ownership, StreamsHeld
<1> QED BY <1>1, OwnershipMakePipe, OwnershipOpenFails, OwnershipFork, OwnershipStoreEnd
    DEF OpenStep

-----------------------------------------------------------------------------
(* close().                                                                *)

\* close() closes an end that is nobody else's.
LEMMA OwnershipCloseEnd ==
  ASSUME TypeOK, Ownership, NEW b \in Bufs, CloseEnd(b)
  PROVE  Ownership'
<1> DEFINE s == First(todo[b])
           p == rpipe[b][s]
<1>1. /\ op[b] = "drop" /\ s \in todo[b] /\ s \in Srcs
      /\ fds' = fds \ {<<p, "rd">>}
      /\ rpipe' = [rpipe EXCEPT ![b][s] = None]
      /\ todo' = [todo EXCEPT ![b] = @ \ {s}]
      /\ UNCHANGED <<op, child, pair>>
  BY FirstIn DEF CloseEnd, TypeOK
<1> HIDE DEF s
<1>2. p # None
  BY <1>1 DEF Ownership, PhasesConsistent
<1>3. \A c \in Bufs : \A t \in Srcs :
        rpipe'[c][t] = IF c = b /\ t = s THEN None ELSE rpipe[c][t]
  BY <1>1 DEF TypeOK
<1>4. \A c \in Bufs : \A t \in Srcs :
        pair[c][t] # p /\ (rpipe[c][t] = p => c = b /\ t = s)
  BY <1>1, <1>2 DEF Ownership, EndsOwnedOnce
<1>5. PhasesConsistent'
  BY <1>1, <1>3 DEF Ownership, PhasesConsistent, TypeOK
<1>6. NoDescriptorLeak'
  <2> SUFFICES ASSUME NEW q \in PipeIds
      PROVE /\ <<q, "wr">> \in fds' <=> \E c \in Bufs, t \in Srcs : pair'[c][t] = q
            /\ <<q, "rd">> \in fds' <=> \E c \in Bufs, t \in Srcs : q \in {pair'[c][t], rpipe'[c][t]}
    BY DEF NoDescriptorLeak
  <2>1. CASE q = p
    <3>1. \A c \in Bufs, t \in Srcs : pair'[c][t] # p /\ rpipe'[c][t] # p
      BY <1>1, <1>2, <1>3, <1>4
    <3>2. <<p, "wr">> \notin fds
      BY <1>4, <2>1 DEF Ownership, NoDescriptorLeak
    <3>3. <<p, "wr">> \notin fds' /\ <<p, "rd">> \notin fds'
      BY <1>1, <3>2
    <3> QED BY <2>1, <3>1, <3>3
  <2>2. CASE q # p
    BY <1>1, <1>3, <2>2, NotNone DEF Ownership, NoDescriptorLeak
  <2> QED BY <2>1, <2>2
<1>7. EndsOwnedOnce' /\ OwnOutputOnly'
  BY <1>1, <1>3 DEF Ownership, EndsOwnedOnce, OwnOutputOnly
<1> QED BY <1>1, <1>5, <1>6, <1>7 DEF Ownership, PairsOwned, StreamsDiffer, StreamsHeld

\* Every step of close().
LEMMA OwnershipClose ==
  ASSUME TypeOK, Ownership, NEW b \in Bufs, CloseStep(b)
  PROVE  Ownership'
<1>1. ASSUME CloseWait(b) PROVE Ownership'
  <2>1. UNCHANGED <<fds, child, pair, rpipe, todo>>
    BY <1>1 DEF CloseWait, kernel
  <2>2. PhasesConsistent'
    BY <1>1, <2>1 DEF CloseWait, Ownership, PhasesConsistent, TypeOK
  <2> QED BY <2>1, <2>2, ChildrenShrink DEF Ownership, StreamsHeld
<1>2. ASSUME Wait(b) PROVE Ownership'
  <2>1. UNCHANGED <<fds, pair, rpipe, todo>>
    BY <1>2 DEF Wait
  <2>2. PhasesConsistent'
    BY <1>2, <2>1 DEF Wait, Ownership, PhasesConsistent, TypeOK
  <2> QED BY <1>2, <2>1, <2>2, ChildGone, ChildrenShrink DEF Wait, Ownership
<1> QED BY <1>1, <1>2, OwnershipCloseEnd DEF CloseStep

-----------------------------------------------------------------------------
\* Every step of tidy clients and their commands keeps the ownership.
LEMMA OwnershipStep ==
  ASSUME IInv, [TidyNext]_vars
  PROVE  Ownership'
<1>1. CASE UNCHANGED vars
  BY <1>1, ChildrenShrink DEF IInv, vars, Ownership, PhasesConsistent, StreamsHeld
<1>2. CASE TidyNext
  BY <1>2, OwnershipOpen, OwnershipClose, OwnershipChild, OwnershipClient DEF IInv, TidyNext
<1> QED BY <1>1, <1>2

\* Tidy clients are clients.
LEMMA TidyIsNext == ASSUME [TidyNext]_vars PROVE [Next]_vars
BY DEF TidyNext, TidyStep, Next

\* Types, commands and ownership together are inductive.
THEOREM Inductive == TidySpec => []IInv
<1>1. Init => IInv
  BY TypeInit, ConsistentInit, OwnershipInit DEF IInv
<1>2. IInv /\ [TidyNext]_vars => IInv'
  BY TidyIsNext, TypeStep, ConsistentStep, OwnershipStep DEF IInv
<1> QED BY <1>1, <1>2, PTL DEF TidySpec

\* At every system call of every thread the process has exactly the pipe ends
\* open that some buffer still refers to: fork(), its failure paths and close()
\* leak no descriptor and leave no write end behind.
THEOREM NoLeak == TidySpec => []NoDescriptorLeak
BY Inductive, PTL DEF IInv, Ownership

\* No descriptor is held by two variables, so no close() takes away a pipe of
\* another buffer.
THEOREM OwnedOnce == TidySpec => []EndsOwnedOnce
BY Inductive, PTL DEF IInv, Ownership

\* What a buffer reads as a stream comes from that stream of its own command,
\* on any number of threads and whatever the kernel reuses.
THEOREM OwnOutput == TidySpec => []OwnOutputOnly
BY Inductive, PTL DEF IInv, Ownership

\* Once the command is dead, end of file is kept from its reader only by the
\* commands other threads forked.
THEOREM EofDelayed == TidySpec => []EofDelayedOnlyByOthers
<1>1. IInv => EofDelayedOnlyByOthers
  <2> SUFFICES ASSUME IInv, NEW b \in Bufs, NEW s \in Srcs,
                      rpipe[b][s] # None, ~Running(b), HasWriter(rpipe[b][s])
               PROVE  \E c \in Bufs \ {b} : Running(c) /\ <<rpipe[b][s], "wr">> \in child[c].fds
    BY DEF EofDelayedOnlyByOthers
  <2> DEFINE p == rpipe[b][s]
  <2>1. p \in PipeIds
    BY DEF IInv, TypeOK, MaybePipe
  <2>2. <<p, "wr">> \notin fds
    <3>1. \A c \in Bufs, t \in Srcs : pair[c][t] # p
      BY DEF IInv, Ownership, EndsOwnedOnce
    <3> HIDE DEF p
    <3> QED BY <2>1, <3>1 DEF IInv, Ownership, NoDescriptorLeak
  <2>3. PICK c \in Bufs : <<rpipe[b][s], "wr">> \in child[c].fds
    BY <2>2 DEF HasWriter
  <2> QED BY <2>3 DEF IInv, CommandsConsistent
<1> QED BY <1>1, Inductive, PTL

\* close() lets go of its command before it waits: whatever the command writes
\* from then on, only commands other threads forked can read.
THEOREM GetsSigpipe == TidySpec => []ChildGetsSigpipe
<1>1. IInv => ChildGetsSigpipe
  <2> SUFFICES ASSUME IInv, NEW b \in Bufs, NEW s \in Srcs, op[b] = "wait",
                      child[b].std[s] # None, HasReader(child[b].std[s])
               PROVE  \E c \in Bufs \ {b} : Running(c) /\ <<child[b].std[s], "rd">> \in child[c].fds
    BY DEF ChildGetsSigpipe
  <2> DEFINE p == child[b].std[s]
  <2>1. p \in PipeIds
    BY DEF IInv, TypeOK, Commands, MaybePipe
  <2>2. \A t \in Srcs : pair[b][t] = None /\ rpipe[b][t] = None
    BY DEF IInv, Ownership, PhasesConsistent
  <2>3. ASSUME NEW c \in Bufs, NEW t \in Srcs PROVE pair[c][t] # p /\ rpipe[c][t] # p
    BY <2>2 DEF IInv, Ownership, PairsOwned, OwnOutputOnly
  <2>4. <<p, "rd">> \notin fds
    <3> HIDE DEF p
    <3> QED BY <2>1, <2>3 DEF IInv, Ownership, NoDescriptorLeak
  <2>5. PICK c \in Bufs : <<child[b].std[s], "rd">> \in child[c].fds
    BY <2>4 DEF HasReader
  <2>6. c # b
    BY <2>5 DEF IInv, CommandsConsistent
  <2> QED BY <2>5, <2>6 DEF IInv, CommandsConsistent
<1> QED BY <1>1, Inductive, PTL

\* Only other threads' commands can delay end of file or SIGPIPE.
THEOREM DelaysAreOthers == TidySpec => []OnlyOthersDelay
BY EofDelayed, GetsSigpipe, PTL DEF OnlyOthersDelay

-----------------------------------------------------------------------------
(* The handler: the inductive invariant.                                   *)

Shut(t) == \A s \in Srcs : rpipe[t][s] = None

\* Where the handler is decides where its stream buffer is.
Phase(t) ==
  /\ pc[t] \in {"idle", "fopen", "parse", "throw", "nocmd", "open", "return"} =>
       /\ op[t] = "idle" /\ ~IsOpen(t) /\ Shut(t) /\ good[t]
       /\ area[t].avail = 0 /\ got[t]["out"] = 0
  /\ pc[t] = "opening" =>
       /\ op[t] \in {"pipes", "parent"} /\ (IsOpen(t) <=> op[t] = "parent")
       /\ mode[t] = Srcs /\ good[t] /\ area[t].avail = 0 /\ got[t]["out"] = 0
  /\ pc[t] \in {"out", "err", "send", "close"} =>
       op[t] = "idle" /\ (~IsOpen(t) => Shut(t) /\ ~good[t])
  /\ pc[t] \in {"err", "send", "close", "closing"} => ~good[t]
  /\ pc[t] = "closing" =>
       /\ op[t] \in {"drop", "wait", "idle"}
       /\ op[t] = "wait" => IsOpen(t)
       /\ op[t] = "idle" => ~IsOpen(t) /\ Shut(t)
  /\ pc[t] = "out" /\ IsOpen(t) => rsrc[t] = "out"
  /\ IF IsOpen(t) THEN child[t].st # "none" ELSE child[t] = NoChild

\* The pipe a stream comes through, from pipe() until it is closed.
Pipe(t, s) == IF pair[t][s] # None THEN pair[t][s] ELSE rpipe[t][s]

Reading(t) == pc[t] \in {"opening", "out", "err", "send", "close"} /\ IsOpen(t)

\* A command's streams are the pipes its buffer has for them.
Connected(t) ==
  /\ op[t] = "pipes" => "out" \in todo[t] \/ pair[t]["out"] # None
  /\ Reading(t) =>
       /\ Pipe(t, "out") # None
       /\ \A s \in Srcs : child[t].std[s] # None => child[t].std[s] = Pipe(t, s)

\* What the command wrote to its standard output is gathered, in the get area
\* or in the pipe.
Conserved(t) ==
  /\ op[t] = "pipes" /\ pair[t]["out"] # None => content[pair[t]["out"]] = 0
  /\ Reading(t) =>
       child[t].wrote["out"] =
         got[t]["out"] + IF good[t] THEN area[t].avail + content[Pipe(t, "out")] ELSE 0
  /\ got[t]["err"] = 0

\* A thread that has seen end of file has seen the end: nobody can write to
\* that pipe any more.
PastEof(t) ==
  ~good[t] /\ IsOpen(t) =>
    /\ child[t].std["out"] = None
    /\ rpipe[t]["out"] # None => ~HasWriter(rpipe[t]["out"])

FileClosed(t) ==
  pc[t] \in {"idle", "fopen", "throw", "send", "close", "closing", "return"} => fp[t] # "open"

\* Only a document that does not parse leads to more than one answer.
Refusals == {<<>>} \cup {r \in {<<"parse error">>} : "malformed" \in Configs}

Answered(t) ==
  /\ pc[t] \in {"idle", "fopen", "throw", "open", "opening", "out", "err", "send"} =>
       replies[t] = <<>>
  /\ pc[t] = "parse" => replies[t] = <<>> \/ (aborted /\ replies[t] \in Refusals)
  /\ pc[t] = "nocmd" => replies[t] \in Refusals
  /\ pc[t] \in {"close", "closing"} => replies[t] = <<"output">>
  /\ pc[t] = "return" => \/ replies[t] \in {<<"500">>, <<"no cmd">>, <<"output">>}
                         \/ "malformed" \in Configs /\ replies[t] = <<"parse error", "no cmd">>

Worker(t) ==
  Phase(t) /\ Connected(t) /\ Conserved(t) /\ PastEof(t) /\ FileClosed(t) /\ Answered(t)

SInv ==
  /\ IInv
  /\ ShellTypeOK
  /\ \A t \in Bufs : Worker(t)

-----------------------------------------------------------------------------
(* What a step of one thread's buffer, or of its command, does to others.  *)

ObjectStep(t) ==
  TidyStep(t) \/ OpenStep(t) \/ CloseStep(t) \/ ChildStep(t) \/ Recycle(t)

Same(u) ==
  /\ op'[u] = op[u] /\ todo'[u] = todo[u] /\ mode'[u] = mode[u] /\ pair'[u] = pair[u]
  /\ ppid'[u] = ppid[u] /\ rpipe'[u] = rpipe[u] /\ rsrc'[u] = rsrc[u]
  /\ area'[u] = area[u] /\ child'[u] = child[u]

\* A step on one buffer leaves the variables of another one alone.
LEMMA OthersSame ==
  ASSUME TypeOK, NEW t \in Bufs, ObjectStep(t), NEW u \in Bufs, u # t
  PROVE  Same(u)
<1>1. CASE TidyStep(t)
  BY <1>1 DEF TidyStep, ClientStep, ReadStep, Open, ReadErr, Consume, FillBuffer,
     FillBufferEof, Exited, Kill, CloseBegin, Reap, kernel, object, TypeOK, Same
<1>2. CASE OpenStep(t)
  BY <1>2 DEF OpenStep, MakePipe, OpenFails, Fork, StoreEnd, CreateBuffers, kernel,
     TypeOK, Same
<1>3. CASE CloseStep(t)
  BY <1>3 DEF CloseStep, CloseEnd, CloseWait, Wait, Reap, kernel, TypeOK, Same
<1>4. CASE ChildStep(t)
  BY <1>4 DEF ChildStep, ChildStartWrite, ChildWrite, ChildSigPipe, ChildClose, ChildExit,
     object, TypeOK, Same
<1>5. CASE Recycle(t)
  BY <1>5 DEF Recycle, kernel, TypeOK, Same
<1> QED BY <1>1, <1>2, <1>3, <1>4, <1>5 DEF ObjectStep

\* The stream on the stack is constructed anew.
LEMMA RecycleInv ==
  ASSUME IInv, NEW t \in Bufs, Recycle(t)
  PROVE  IInv'
<1>1. UNCHANGED <<fds, content, child, op, todo, mode, pair, rpipe>>
  BY DEF Recycle, kernel
<1>2. TypeOK'
  BY <1>1 DEF Recycle, IInv, TypeOK, NullArea, Srcs
<1>3. CommandsConsistent'
  BY <1>1 DEF IInv, CommandsConsistent, Running
<1>4. Ownership'
  BY <1>1 DEF IInv, Ownership, PhasesConsistent, NoDescriptorLeak, EndsOwnedOnce,
     PairsOwned, StreamsDiffer, StreamsHeld, OwnOutputOnly
<1> QED BY <1>2, <1>3, <1>4 DEF IInv

\* The handler's calls are those of a tidy client.
LEMMA ObjectInv ==
  ASSUME IInv, NEW t \in Bufs, ObjectStep(t)
  PROVE  IInv'
<1>1. CASE Recycle(t)
  BY <1>1, RecycleInv
<1>2. CASE TidyStep(t) \/ OpenStep(t) \/ CloseStep(t) \/ ChildStep(t)
  <2>1. TidyNext
    BY <1>2 DEF TidyNext
  <2> QED BY <2>1, TidyIsNext, TypeStep, ConsistentStep, OwnershipStep DEF IInv
<1> QED BY <1>1, <1>2 DEF ObjectStep

\* No step changes what is in another buffer's pipes.
LEMMA OthersContent ==
  ASSUME IInv, NEW t \in Bufs, ObjectStep(t), NEW u \in Bufs, u # t, NEW s \in Srcs,
         NEW p \in PipeIds, p \in {pair[u][s], rpipe[u][s]}
  PROVE  content'[p] = content[p]
<1>1. ASSUME NEW q \in PipeIds, MakePipe(t, q) PROVE content'[p] = content[p]
  <2>1. p # q
    BY <1>1, FreshPipe DEF MakePipe, IInv
  <2> QED BY <1>1, <2>1 DEF MakePipe, IInv, TypeOK
<1>2. ASSUME FillBuffer(t) PROVE content'[p] = content[p]
  <2>1. rsrc[t] \in Srcs
    BY DEF IInv, TypeOK
  <2>2. Source(t) # p
    BY <1>2, <2>1, NotNone DEF IInv, Ownership, EndsOwnedOnce, Source
  <2> QED BY <1>2, <2>2 DEF FillBuffer, IInv, TypeOK
<1>3. ASSUME NEW r \in Srcs, ChildWrite(t, r) PROVE content'[p] = content[p]
  <2>1. child[t].std[r] # p
    BY NotNone DEF IInv, Ownership, PairsOwned, OwnOutputOnly
  <2> QED BY <1>3, <2>1 DEF ChildWrite, IInv, TypeOK
<1>4. CASE UNCHANGED content
  BY <1>4
<1> QED BY <1>1, <1>2, <1>3, <1>4
    DEF ObjectStep, TidyStep, ClientStep, ReadStep, Open, ReadErr, Consume,
        FillBufferEof, Exited, Kill, CloseBegin, OpenStep, OpenFails, Fork, StoreEnd,
        CreateBuffers, CloseStep, CloseEnd, CloseWait, Wait, ChildStep, ChildStartWrite,
        ChildSigPipe, ChildClose, ChildExit, Recycle, kernel

\* What becomes of a command, but for the one that is forked: its streams and
\* the ends it holds only get fewer, and while it lives it only gives up the
\* write ends of its own streams.
Shrinks(c) ==
  /\ \A s \in Srcs : child'[c].std[s] # None => child'[c].std[s] = child[c].std[s]
  /\ \/ child'[c].fds \in {child[c].fds, {}}
     \/ \E s \in Srcs : /\ child[c].std[s] # None
                        /\ child'[c].fds = child[c].fds \ {<<child[c].std[s], "wr">>}

\* A running command loses ends and budget, and gains nothing.
LEMMA CommandShrinks ==
  ASSUME TypeOK, NEW t \in Bufs, ChildStep(t)
  PROVE  /\ UNCHANGED <<fds, object>>
         /\ child[t].st # "none" /\ child'[t].st # "none"
         /\ Shrinks(t) /\ \A c \in Bufs \ {t} : child'[c] = child[c]
<1>1. child[t] \in Commands /\ child \in [Bufs -> Commands]
  BY DEF TypeOK
<1>2. UNCHANGED <<fds, object>> /\ child[t].st # "none"
  BY DEF ChildStep, ChildStartWrite, ChildWrite, ChildSigPipe, ChildClose, ChildExit, Srcs
<1>3. \A c \in Bufs \ {t} : child'[c] = child[c]
  BY <1>1 DEF ChildStep, ChildStartWrite, ChildWrite, ChildSigPipe, ChildClose, ChildExit
<1>4. ASSUME NEW s \in Srcs, ChildStartWrite(t, s) \/ ChildWrite(t, s)
      PROVE  child'[t].st \in {s, "run"} /\ child'[t].std = child[t].std /\ child'[t].fds = child[t].fds
  <2>1. CASE ChildStartWrite(t, s)
    BY <1>1, <2>1 DEF ChildStartWrite, Commands
  <2>2. CASE ChildWrite(t, s)
    BY <1>1, <2>2 DEF ChildWrite, Commands
  <2> QED BY <1>4, <2>1, <2>2
<1>5. ASSUME NEW s \in Srcs, ChildClose(t, s)
      PROVE  /\ child'[t].st = "run" /\ child'[t].std = [child[t].std EXCEPT ![s] = None]
             /\ child[t].std[s] # None
             /\ child'[t].fds = child[t].fds \ {<<child[t].std[s], "wr">>}
  BY <1>1, <1>5 DEF ChildClose, Commands
<1>6. CASE child' = [child EXCEPT ![t] = Dead(@)]
  <2>1. child'[t] = Dead(child[t])
    BY <1>1, <1>6
  <2>2. Dead(child[t]).st = "zombie" /\ Dead(child[t]).std = NoPipes /\ Dead(child[t]).fds = {}
    BY <1>1 DEF Dead, Commands
  <2> QED BY <1>2, <1>3, <2>1, <2>2 DEF NoPipes, Shrinks
<1>7. CASE \E s \in Srcs : ChildClose(t, s)
  <2>1. child[t].std \in [Srcs -> MaybePipe]
    BY <1>1 DEF Commands
  <2> QED BY <1>2, <1>3, <1>5, <1>7, <2>1 DEF Shrinks
<1>8. CASE \E s \in Srcs : ChildStartWrite(t, s) \/ ChildWrite(t, s)
  BY <1>2, <1>3, <1>4, <1>8 DEF Srcs, Shrinks
<1> QED BY <1>6, <1>7, <1>8 DEF ChildStep, ChildSigPipe, ChildExit

\* Nor does any command gain anything from the call of a thread, fork() apart.
LEMMA CommandsShrink ==
  ASSUME IInv, NEW t \in Bufs, ObjectStep(t), ~Fork(t), NEW c \in Bufs
  PROVE  Shrinks(c)
<1>1. TypeOK /\ child \in [Bufs -> Commands] /\ child[t] \in Commands
  BY DEF IInv, TypeOK
<1>2. CASE child' = child
  BY <1>2 DEF Shrinks
<1>3. CASE Reap(t) \/ child' = [child EXCEPT ![t] = Dead(@)]
  <2>1. child'[t].fds = {} /\ child'[t].std = NoPipes /\ \A d \in Bufs \ {t} : child'[d] = child[d]
    <3>1. CASE Reap(t)
      <4>1. child' = [child EXCEPT ![t] = NoChild]
        BY <3>1 DEF Reap
      <4>2. child'[t] = NoChild /\ \A d \in Bufs \ {t} : child'[d] = child[d]
        BY <1>1, <4>1
      <4> QED BY <4>2 DEF NoChild
    <3>2. CASE child' = [child EXCEPT ![t] = Dead(@)]
      <4>1. child'[t] = Dead(child[t]) /\ \A d \in Bufs \ {t} : child'[d] = child[d]
        BY <1>1, <3>2
      <4>2. Dead(child[t]).fds = {} /\ Dead(child[t]).std = NoPipes
        BY <1>1 DEF Dead, Commands
      <4> QED BY <4>1, <4>2
    <3> QED BY <1>3, <3>1, <3>2
  <2> QED BY <2>1 DEF Shrinks, NoPipes
<1>4. CASE ChildStep(t)
  BY <1>1, <1>4, CommandShrinks DEF Shrinks
<1>5. child' = child \/ Reap(t) \/ child' = [child EXCEPT ![t] = Dead(@)] \/ ChildStep(t)
  BY DEF ObjectStep, TidyStep, ClientStep, ReadStep, Open, ReadErr, Consume, FillBuffer,
     FillBufferEof, Exited, Kill, CloseBegin, OpenStep, MakePipe, OpenFails, StoreEnd,
     CreateBuffers, CloseStep, CloseEnd, CloseWait, Wait, Recycle, kernel
<1> QED BY <1>2, <1>3, <1>4, <1>5

\* Nobody gets hold of a write end that is closed everywhere.
LEMMA NoNewWriter ==
  ASSUME IInv, NEW t \in Bufs, ObjectStep(t), NEW u \in Bufs, NEW s \in Srcs,
         NEW p \in PipeIds, p = rpipe[u][s], ~HasWriter(p)
  PROVE  ~HasWriter(p)'
<1> DEFINE w == <<p, "wr">>
<1>0. w \notin fds /\ \A c \in Bufs : w \notin child[c].fds
  BY DEF HasWriter
<1>a. SUFFICES w \notin fds' /\ \A c \in Bufs : w \notin child'[c].fds
  BY DEF HasWriter
<1> HIDE DEF w
<1>1. ASSUME NEW q \in PipeIds, MakePipe(t, q) PROVE w \notin fds' /\ child' = child
  <2>1. p # q
    BY <1>1, FreshPipe DEF MakePipe, IInv
  <2> QED BY <1>0, <1>1, <2>1 DEF MakePipe, w
<1>2. ASSUME Fork(t) PROVE w \notin fds' /\ \A c \in Bufs : w \notin child'[c].fds
  <2>1. w \notin PairEnds(t)
    BY NotNone DEF IInv, Ownership, EndsOwnedOnce, PairEnds, w
  <2>2. w \notin ChildFds(t)
    BY <1>0, <2>1 DEF ChildFds
  <2>3. child'[t].fds = ChildFds(t) /\ \A c \in Bufs \ {t} : child'[c] = child[c]
    BY <1>2 DEF Fork, IInv, TypeOK
  <2>4. fds' = fds
    BY <1>2 DEF Fork
  <2> QED BY <1>0, <2>2, <2>3, <2>4
<1>3. CASE ~(\E q \in PipeIds : MakePipe(t, q)) /\ ~Fork(t)
  <2>1. fds' \in SUBSET fds
    BY <1>3 DEF ObjectStep, TidyStep, ClientStep, ReadStep, Open, ReadErr, Consume, FillBuffer,
       FillBufferEof, Exited, Kill, CloseBegin, OpenStep, OpenFails, StoreEnd, CreateBuffers,
       CloseStep, CloseEnd, CloseWait, Wait, ChildStep, ChildStartWrite, ChildWrite,
       ChildSigPipe, ChildClose, ChildExit, Recycle, kernel
  <2> QED BY <1>0, <1>3, <2>1, CommandsShrink DEF Shrinks
<1> QED BY <1>0, <1>1, <1>2, <1>3

\* A worker is not disturbed by what the others do to their buffers.
Undisturbed(u) ==
  /\ Same(u)
  /\ \A p \in PipeIds : \A s \in Srcs :
       /\ p \in {pair[u][s], rpipe[u][s]} => content'[p] = content[p]
       /\ p = rpipe[u][s] /\ ~HasWriter(p) => ~HasWriter(p)'

\* What a worker knows of its pipes is not disturbed by another one's steps,
LEMMA OthersUndisturbed ==
  ASSUME IInv, NEW t \in Bufs, ObjectStep(t) \/ UNCHANGED vars, NEW u \in Bufs, u # t
  PROVE  Undisturbed(u)
<1>1. CASE ObjectStep(t)
  BY <1>1, OthersSame, OthersContent, NoNewWriter DEF Undisturbed, IInv
<1>2. CASE UNCHANGED vars
  BY <1>2 DEF vars, Undisturbed, Same, HasWriter
<1> QED BY <1>1, <1>2

\* The handler's own variables of a worker, but for a FILE* closed by another.
SameLocals(u) ==
  /\ pc'[u] = pc[u] /\ replies'[u] = replies[u] /\ good'[u] = good[u] /\ got'[u] = got[u]
  /\ fp'[u] = "open" => fp[u] = "open"
  /\ aborted => aborted'

\* so that what holds of the worker goes on to hold.
LEMMA WorkerKept ==
  ASSUME IInv, NEW u \in Bufs, Worker(u), Undisturbed(u), SameLocals(u)
  PROVE  Worker(u)'
<1>1. \A s \in Srcs : Pipe(u, s)' = Pipe(u, s)
  BY DEF Pipe, Undisturbed, Same
<1>2. Phase(u)'
  BY DEF Worker, Phase, Shut, IsOpen, Undisturbed, Same, SameLocals
<1>3. Connected(u)'
  <2>1. Same(u)
    BY DEF Undisturbed
  <2> QED BY <2>1 DEF Worker, Connected, Pipe, Reading, IsOpen, Same, SameLocals
<1>4. Conserved(u)'
  <2>1. ASSUME Reading(u) PROVE content'[Pipe(u, "out")] = content[Pipe(u, "out")]
    <3>1. Pipe(u, "out") \in PipeIds
      BY <2>1 DEF Worker, Connected, Pipe, IInv, TypeOK, MaybePipe, Srcs
    <3> QED BY <3>1 DEF Pipe, Undisturbed, Srcs
  <2>2. ASSUME pair[u]["out"] # None
        PROVE  content'[pair[u]["out"]] = content[pair[u]["out"]]
    <3>1. pair[u]["out"] \in PipeIds
      BY <2>2 DEF IInv, TypeOK, MaybePipe, Srcs
    <3> QED BY <3>1 DEF Undisturbed, Srcs
  <2> QED BY <1>1, <2>1, <2>2
          DEF Worker, Conserved, Reading, IsOpen, Undisturbed, Same, SameLocals, Srcs
<1>5. PastEof(u)'
  <2>1. ASSUME rpipe[u]["out"] # None, ~HasWriter(rpipe[u]["out"])
        PROVE  ~HasWriter(rpipe[u]["out"])'
    <3>1. rpipe[u]["out"] \in PipeIds /\ rpipe'[u] = rpipe[u]
      BY <2>1 DEF IInv, TypeOK, MaybePipe, Srcs, Undisturbed, Same
    <3> QED BY <2>1, <3>1 DEF Undisturbed, Srcs, HasWriter
  <2> QED BY <2>1 DEF Worker, PastEof, IsOpen, Undisturbed, Same, SameLocals
<1>6. FileClosed(u)' /\ Answered(u)'
  BY DEF Worker, FileClosed, Answered, SameLocals, Refusals
<1> QED BY <1>2, <1>3, <1>4, <1>5, <1>6 DEF Worker

-----------------------------------------------------------------------------
(* The handler's own steps.                                                *)

\* A step in which the handler does not touch its stream buffer.
PlainStep(t) ==
  \/ Request(t) \/ Fopen(t) \/ Throw(t) \/ ParseFails(t) \/ ParseOk(t)
  \/ NoCmd(t) \/ ReadDone(t) \/ SendOutput(t) \/ Return(t)

\* One answer,
LEMMA FirstReply == ASSUME NEW a PROVE Append(<<>>, a) = <<a>>
OBVIOUS

\* and a second one behind it.
LEMMA SecondReply == ASSUME NEW a, NEW b PROVE Append(<<a>>, b) = <<a, b>>
<1> DEFINE q == <<a>>
           r == Append(q, b)
<1>1. q \in Seq({a, b}) /\ Len(q) = 1 /\ q[1] = a
  OBVIOUS
<1>2. r \in Seq({a, b}) /\ Len(r) = 2 /\ r[1] = a /\ r[2] = b
  BY <1>1
<1> HIDE DEF r
<1>3. r = <<a, b>>
  BY <1>2
<1> QED BY <1>3 DEF r

\* The steps of the handler between its calls of the stream.
LEMMA WorkerPlain ==
  ASSUME SInv, NEW t \in Bufs, PlainStep(t), ~aborted
  PROVE  Worker(t)'
<1>1. /\ vars' = vars /\ good' = good /\ got' = got
      /\ Worker(t) /\ ShellTypeOK
  BY DEF SInv, PlainStep, Request, Fopen, Throw, ParseFails, ParseOk, NoCmd, ReadDone,
         SendOutput, Return
<1>2. Phase(t)'
  <2>1. \/ pc'[t] = pc[t]
        \/ pc[t] \in {"err", "send"} /\ pc'[t] \in {"send", "close"}
        \/ /\ pc[t] \in {"idle", "fopen", "parse", "throw", "nocmd", "open", "return"}
           /\ pc'[t] \in {"idle", "fopen", "parse", "throw", "nocmd", "open", "return"}
    BY <1>1 DEF PlainStep, Request, Fopen, Throw, ParseFails, ParseOk, NoCmd, ReadDone,
         SendOutput, Return, Goto, ShellTypeOK
  <2> QED BY <1>1, <2>1 DEF Worker, Phase, Shut, IsOpen, vars
<1>3. Connected(t)' /\ Conserved(t)'
  <2>1. Reading(t)' => Reading(t)
    BY <1>1 DEF Reading, Worker, Phase, IsOpen, vars, PlainStep, Request, Fopen, Throw,
       ParseFails, ParseOk, NoCmd, ReadDone, SendOutput, Return, Goto, ShellTypeOK
  <2>2. Pipe(t, "out")' = Pipe(t, "out") /\ Pipe(t, "err")' = Pipe(t, "err")
    BY <1>1 DEF Pipe, vars
  <2> QED BY <1>1, <2>1, <2>2 DEF Worker, Connected, Conserved, Srcs, vars
<1>4. PastEof(t)'
  BY <1>1 DEF Worker, PastEof, HasWriter, IsOpen, vars
<1>5. FileClosed(t)'
  BY <1>1 DEF Worker, FileClosed, PlainStep, Request, Fopen, Throw, ParseFails, ParseOk,
     NoCmd, ReadDone, SendOutput, Return, Fclose, Goto, ShellTypeOK
<1>6. Answered(t)'
  <2>0. Answered(t) /\ pc[t] \in Locations /\ pc \in [Bufs -> Locations] /\ t \in DOMAIN replies
    BY <1>1 DEF Worker, ShellTypeOK
  <2>1. CASE Throw(t)
    BY <2>0, <2>1, FirstReply DEF Answered, Throw, Goto, Send
  <2>2. CASE SendOutput(t)
    BY <2>0, <2>2, FirstReply DEF Answered, SendOutput, Goto, Send
  <2>3. CASE ParseFails(t)
    <3>1. replies'[t] = <<"parse error">> /\ replies'[t] \in Refusals'
      BY <2>0, <2>3, FirstReply DEF Answered, ParseFails, Send, Refusals
    <3> QED BY <2>0, <2>3, <3>1 DEF Answered, ParseFails, Goto, Refusals
  <2>4. CASE NoCmd(t) /\ ~aborted'
    <3>1. \/ replies'[t] = <<"no cmd">>
          \/ "malformed" \in Configs /\ replies'[t] = <<"parse error", "no cmd">>
      BY <2>0, <2>4, FirstReply, SecondReply DEF Answered, NoCmd, Send, Refusals
    <3> QED BY <2>0, <2>4, <3>1 DEF Answered, NoCmd, Goto
  <2>5. CASE Return(t)
    BY <2>0, <2>5 DEF Answered, Return, Goto
  <2>6. CASE Request(t) \/ Fopen(t) \/ ParseOk(t) \/ ReadDone(t) \/ (NoCmd(t) /\ aborted')
    <3>1. replies' = replies
      BY <2>6 DEF Request, Fopen, ParseOk, ReadDone, NoCmd
    <3>2. CASE Request(t) \/ Fopen(t) \/ ParseOk(t)
      BY <2>0, <3>1, <3>2 DEF Answered, Request, Fopen, ParseOk, Goto, Refusals
    <3>3. CASE ReadDone(t) \/ (NoCmd(t) /\ aborted')
      BY <2>0, <3>1, <3>3 DEF Answered, ReadDone, NoCmd, Goto, Refusals
    <3> QED BY <2>6, <3>2, <3>3
  <2> QED BY <2>1, <2>2, <2>3, <2>4, <2>5, <2>6 DEF PlainStep
<1> QED BY <1>2, <1>3, <1>4, <1>5, <1>6 DEF Worker

\* A step that sends nothing and leaves the file alone.
LEMMA AnswersKept ==
  ASSUME NEW t \in Bufs, FileClosed(t), Answered(t), UNCHANGED <<fp, replies, aborted>>,
         \/ pc'[t] = pc[t]
         \/ <<pc[t], pc'[t]>> \in {<<"open", "opening">>, <<"opening", "out">>, <<"out", "err">>,
                                    <<"close", "closing">>, <<"closing", "return">>}
  PROVE  FileClosed(t)' /\ Answered(t)'
BY DEF FileClosed, Answered, Refusals

-----------------------------------------------------------------------------
(* Opening the stream buffer.                                              *)

\* The constructor of ipstream calls open().
LEMMA WorkerOpen ==
  ASSUME SInv, NEW t \in Bufs, pc[t] = "open", StartProc(t)
  PROVE  Worker(t)'
<1>1. /\ Open(t, Srcs) /\ pc' = [pc EXCEPT ![t] = "opening"]
      /\ UNCHANGED <<fp, replies, good, got, aborted>>
      /\ Worker(t) /\ ShellTypeOK /\ TypeOK
  BY DEF StartProc, Goto, SInv, IInv
<1>2. /\ op'[t] = "pipes" /\ mode'[t] = Srcs /\ todo'[t] = Srcs
      /\ child' = child /\ pair' = pair /\ ppid' = ppid /\ rpipe' = rpipe /\ area' = area
      /\ pc'[t] = "opening" /\ op[t] = "idle"
  BY <1>1 DEF Open, kernel, TypeOK, ShellTypeOK
<1>3. Phase(t)'
  BY <1>1, <1>2 DEF Worker, Phase, IsOpen
<1>4. Connected(t)'
  BY <1>1, <1>2 DEF Worker, Phase, Connected, Reading, IsOpen, Srcs
<1>5. Conserved(t)'
  <2>1. pair[t]["out"] = None
    BY <1>2 DEF SInv, IInv, Ownership, PhasesConsistent, Srcs
  <2> QED BY <1>1, <1>2, <2>1 DEF Worker, Phase, Conserved, Reading, IsOpen
<1>6. PastEof(t)'
  BY <1>1, <1>2 DEF Worker, Phase, PastEof, IsOpen
<1> QED BY <1>1, <1>2, <1>3, <1>4, <1>5, <1>6, AnswersKept DEF Worker

\* In it: pipe(),
LEMMA WorkerMakePipe ==
  ASSUME SInv, NEW t \in Bufs, pc[t] = "opening", NEW p \in PipeIds, MakePipe(t, p),
         UNCHANGED local
  PROVE  Worker(t)'
<1>1. Worker(t) /\ ShellTypeOK /\ TypeOK /\ op[t] = "pipes" /\ ~IsOpen(t) /\ First(todo[t]) \in todo[t]
  BY FirstIn DEF SInv, IInv, Worker, Phase, MakePipe, TypeOK
<1>2. /\ child' = child /\ ppid' = ppid /\ rpipe' = rpipe /\ area' = area /\ op' = op /\ mode' = mode
      /\ content' = [content EXCEPT ![p] = 0]
  BY DEF MakePipe
<1>3. \A s \in Srcs : /\ pair'[t][s] = IF s = First(todo[t]) THEN p ELSE pair[t][s]
                      /\ s \in todo'[t] <=> s \in todo[t] /\ s # First(todo[t])
  BY <1>1 DEF MakePipe, TypeOK
<1>4. \A s \in Srcs : pair[t][s] # p
  BY FreshPipe DEF MakePipe, SInv, IInv
<1>5. Phase(t)'
  BY <1>1, <1>2 DEF local, Worker, Phase, IsOpen
<1>6. Connected(t)'
  BY <1>1, <1>2, <1>3, NotNone DEF local, Worker, Connected, Reading, IsOpen, Srcs
<1>7. Conserved(t)'
  <2>1. ASSUME pair'[t]["out"] # None PROVE content'[pair'[t]["out"]] = 0
    <3>1. CASE pair'[t]["out"] = p
      BY <1>1, <1>2, <3>1 DEF TypeOK
    <3>2. CASE pair'[t]["out"] = pair[t]["out"]
      <4>1. content[pair[t]["out"]] = 0 /\ pair[t]["out"] \in PipeIds
        BY <1>1, <2>1, <3>2 DEF Worker, Conserved, TypeOK, MaybePipe, Srcs
      <4> QED BY <1>1, <1>2, <1>4, <3>2, <4>1 DEF TypeOK, Srcs
    <3> QED BY <1>3, <3>1, <3>2 DEF Srcs
  <2> QED BY <1>1, <1>2, <2>1 DEF local, Worker, Conserved, Reading, IsOpen
<1>8. PastEof(t)'
  BY <1>1, <1>2 DEF local, Worker, PastEof, IsOpen
<1> QED BY <1>1, <1>5, <1>6, <1>7, <1>8, AnswersKept DEF local, Worker

\* its failure,
LEMMA WorkerOpenFails ==
  ASSUME SInv, NEW t \in Bufs, pc[t] = "opening", StartProc(t), OpenFails(t)
  PROVE  Worker(t)'
<1>1. Worker(t) /\ ShellTypeOK /\ TypeOK /\ op[t] = "pipes" /\ ~IsOpen(t) /\ Shut(t)
  BY DEF SInv, IInv, Worker, Phase, OpenFails, Ownership, PhasesConsistent, Shut
<1>2. /\ child' = child /\ ppid' = ppid /\ rpipe' = rpipe /\ area' = area /\ op'[t] = "idle"
      /\ pair'[t] = NoPipes
  BY <1>1 DEF OpenFails, TypeOK
<1>3. /\ pc'[t] = "out" /\ ~good'[t] /\ UNCHANGED <<fp, replies, got, aborted>>
  BY <1>1, <1>2 DEF StartProc, Goto, ShellTypeOK, IsOpen
<1>4. Phase(t)'
  BY <1>1, <1>2, <1>3 DEF Worker, Phase, IsOpen, Shut
<1>5. Connected(t)' /\ Conserved(t)' /\ PastEof(t)'
  BY <1>1, <1>2, <1>3 DEF Worker, Connected, Conserved, PastEof, Reading, IsOpen
<1> QED BY <1>1, <1>3, <1>4, <1>5, AnswersKept DEF Worker

\* fork(),
LEMMA WorkerFork ==
  ASSUME SInv, NEW t \in Bufs, pc[t] = "opening", Fork(t), UNCHANGED local
  PROVE  Worker(t)'
<1>1. Worker(t) /\ ShellTypeOK /\ TypeOK /\ op[t] = "pipes" /\ todo[t] = {} /\ ~IsOpen(t)
  BY DEF SInv, IInv, Worker, Phase, Fork
<1>2. /\ content' = content /\ rpipe' = rpipe /\ area' = area /\ mode' = mode /\ pair' = pair
      /\ op'[t] = "parent" /\ ppid'[t] = "child"
      /\ child'[t].st = "run" /\ child'[t].std = pair[t] /\ child'[t].wrote["out"] = 0
  BY <1>1 DEF Fork, TypeOK, Srcs
<1>3. Phase(t)'
  BY <1>1, <1>2 DEF local, Worker, Phase, IsOpen
<1>4. pair[t]["out"] # None /\ content[pair[t]["out"]] = 0 /\ Pipe(t, "out")' = pair[t]["out"]
  BY <1>1, <1>2 DEF Worker, Connected, Conserved, Pipe
<1>5. Connected(t)'
  BY <1>1, <1>2, <1>4 DEF Connected, Pipe
<1>6. Conserved(t)'
  BY <1>1, <1>2, <1>4 DEF local, Worker, Phase, Conserved
<1>7. PastEof(t)'
  BY <1>1 DEF local, Worker, Phase, PastEof
<1> QED BY <1>1, <1>3, <1>5, <1>6, <1>7, AnswersKept DEF local, Worker

\* the end that is kept,
LEMMA WorkerStoreEnd ==
  ASSUME SInv, NEW t \in Bufs, pc[t] = "opening", StoreEnd(t), UNCHANGED local
  PROVE  Worker(t)'
<1> DEFINE s == First(todo[t])
<1>1. Worker(t) /\ ShellTypeOK /\ TypeOK /\ op[t] = "parent" /\ s \in todo[t] /\ s \in Srcs
  BY FirstIn DEF SInv, IInv, Worker, Phase, StoreEnd, TypeOK
<1>2. /\ content' = content /\ child' = child /\ area' = area /\ mode' = mode /\ op' = op /\ ppid' = ppid
      /\ rpipe' = [rpipe EXCEPT ![t][s] = pair[t][s]]
      /\ pair' = [pair EXCEPT ![t][s] = None]
  BY DEF StoreEnd
<1> HIDE DEF s
<1>3. \A r \in Srcs : /\ rpipe'[t][r] = IF r = s THEN pair[t][s] ELSE rpipe[t][r]
                      /\ pair'[t][r] = IF r = s THEN None ELSE pair[t][r]
  BY <1>1, <1>2 DEF TypeOK
<1>4. \A r \in Srcs : Pipe(t, r)' = Pipe(t, r)
  <2>1. pair[t][s] # None /\ pair[t][s] \in MaybePipe
    BY <1>1 DEF SInv, IInv, Ownership, PhasesConsistent, TypeOK
  <2> QED BY <1>3, <2>1 DEF Pipe
<1>5. Phase(t)'
  BY <1>1, <1>2 DEF local, Worker, Phase, IsOpen
<1>6. Connected(t)'
  <2>1. Pipe(t, "out")' = Pipe(t, "out") /\ Pipe(t, "err")' = Pipe(t, "err")
    BY <1>4 DEF Srcs
  <2> QED BY <1>1, <1>2, <2>1 DEF local, Worker, Connected, Reading, IsOpen, Srcs
<1>7. Conserved(t)'
  <2>1. Pipe(t, "out")' = Pipe(t, "out")
    BY <1>4 DEF Srcs
  <2> QED BY <1>1, <1>2, <2>1 DEF local, Worker, Conserved, Reading, IsOpen
<1>8. PastEof(t)'
  BY <1>1 DEF local, Worker, Phase, PastEof
<1> QED BY <1>1, <1>5, <1>6, <1>7, <1>8, AnswersKept DEF local, Worker

\* and the buffers, with which open() returns.
LEMMA WorkerCreateBuffers ==
  ASSUME SInv, NEW t \in Bufs, pc[t] = "opening", StartProc(t), CreateBuffers(t)
  PROVE  Worker(t)'
<1>1. Worker(t) /\ ShellTypeOK /\ TypeOK /\ op[t] = "parent" /\ IsOpen(t) /\ mode[t] = Srcs
  BY DEF SInv, IInv, Worker, Phase, CreateBuffers
<1>2. /\ content' = content /\ child' = child /\ ppid' = ppid /\ rpipe' = rpipe /\ pair' = pair
      /\ op'[t] = "idle" /\ area'[t].avail = 0 /\ rsrc'[t] = "out"
  BY <1>1 DEF CreateBuffers, kernel, TypeOK, First, Srcs
<1>3. /\ pc'[t] = "out" /\ good'[t] = TRUE /\ UNCHANGED <<fp, replies, got, aborted>>
  BY <1>1, <1>2 DEF StartProc, Goto, ShellTypeOK
<1>4. Phase(t)'
  BY <1>1, <1>2, <1>3 DEF Worker, Phase, IsOpen
<1>5. Pipe(t, "out")' = Pipe(t, "out") /\ Pipe(t, "err")' = Pipe(t, "err")
  BY <1>2 DEF Pipe
<1>6. Connected(t)'
  BY <1>1, <1>2, <1>5 DEF Worker, Connected, Reading, IsOpen, Srcs
<1>7. Conserved(t)' /\ PastEof(t)'
  BY <1>1, <1>2, <1>3, <1>5 DEF Worker, Phase, Conserved, PastEof, Reading, IsOpen
<1> QED BY <1>1, <1>3, <1>4, <1>6, <1>7, AnswersKept DEF Worker

-----------------------------------------------------------------------------
(* Reading.                                                                *)

\* A thread that is still reading reads the standard output of its command.
LEMMA ReadsOut ==
  ASSUME SInv, NEW t \in Bufs, pc[t] \in Srcs, good[t]
  PROVE  /\ pc[t] = "out" /\ op[t] = "idle" /\ IsOpen(t) /\ Reading(t)
         /\ Source(t) = rpipe[t]["out"] /\ Pipe(t, "out") = rpipe[t]["out"]
         /\ rpipe[t]["out"] \in PipeIds
<1>1. /\ pc[t] = "out" /\ op[t] = "idle" /\ IsOpen(t) /\ Reading(t) /\ Source(t) = rpipe[t]["out"]
      /\ Pipe(t, "out") # None
  BY DEF SInv, Worker, Phase, Connected, Reading, Source, Srcs
<1>2. pair[t]["out"] = None
  BY <1>1 DEF SInv, IInv, Ownership, PhasesConsistent, Srcs
<1> QED BY <1>1, <1>2 DEF Pipe, SInv, IInv, TypeOK, MaybePipe, Srcs

\* getline takes a character from the get area, or fills it, or sees end-of-file.
LEMMA WorkerGetline ==
  ASSUME SInv, NEW t \in Bufs, Getline(t)
  PROVE  Worker(t)'
<1>1. /\ pc[t] = "out" /\ good[t] /\ op[t] = "idle" /\ IsOpen(t) /\ Reading(t)
      /\ Source(t) = rpipe[t]["out"] /\ Pipe(t, "out") = rpipe[t]["out"]
      /\ rpipe[t]["out"] \in PipeIds
  BY ReadsOut DEF Getline
<1>2. Worker(t) /\ ShellTypeOK /\ TypeOK
  BY DEF SInv, IInv
<1>3. /\ op' = op /\ child' = child /\ ppid' = ppid /\ rpipe' = rpipe /\ pair' = pair /\ fds' = fds
      /\ rsrc' = rsrc /\ pc' = pc /\ UNCHANGED <<fp, replies, aborted>>
  BY DEF Getline, Consume, FillBuffer, FillBufferEof, kernel
<1>4. Phase(t)'
  BY <1>1, <1>2, <1>3 DEF Worker, Phase, IsOpen
<1>5. Pipe(t, "out")' = Pipe(t, "out") /\ Pipe(t, "err")' = Pipe(t, "err") /\ (Reading(t)' <=> Reading(t))
  BY <1>3 DEF Pipe, Reading, IsOpen
<1>6. Connected(t)'
  BY <1>1, <1>2, <1>3, <1>5 DEF Worker, Connected, Srcs
<1>7. child[t].wrote["out"] = got[t]["out"] + area[t].avail + content[rpipe[t]["out"]]
      /\ area[t].avail \in Nat /\ content[rpipe[t]["out"]] \in Nat /\ got[t]["out"] \in Nat
      /\ got[t]["err"] = 0
  <2>1. /\ area[t].avail \in Nat /\ content[rpipe[t]["out"]] \in 0..PipeCap
        /\ got[t] \in [Srcs -> Nat] /\ got[t]["out"] \in Nat
    <3>1. area[t] \in [buf : Nat, avail : Nat] /\ content \in [PipeIds -> 0..PipeCap]
          /\ got[t] \in [Srcs -> Nat]
      BY <1>2 DEF TypeOK, ShellTypeOK
    <3> QED BY <1>1, <3>1 DEF Srcs
  <2>2. child[t].wrote["out"] = got[t]["out"] + (area[t].avail + content[rpipe[t]["out"]])
    <3>1. Conserved(t) /\ Reading(t) /\ good[t] /\ Pipe(t, "out") = rpipe[t]["out"]
      BY <1>1, <1>2 DEF Worker
    <3> QED BY <3>1 DEF Conserved
  <2> QED BY <1>2, <2>1, <2>2 DEF Worker, Conserved
<1>8. Conserved(t)' /\ PastEof(t)'
  <2>1. CASE Consume(t) /\ got' = [got EXCEPT ![t][pc[t]] = @ + 1] /\ UNCHANGED good
    <3>1. /\ content' = content /\ area'[t].avail = area[t].avail - 1
          /\ got'[t]["out"] = got[t]["out"] + 1 /\ got'[t]["err"] = got[t]["err"]
      <4>1. area[t] \in [buf : Nat, avail : Nat] /\ got[t] \in [Srcs -> Nat]
        BY <1>2 DEF TypeOK, ShellTypeOK
      <4>2. area'[t] = [area[t] EXCEPT !.avail = @ - 1] /\ content' = content
        BY <1>2, <2>1 DEF Consume, kernel, TypeOK
      <4>3. got'[t] = [got[t] EXCEPT !["out"] = @ + 1]
        BY <1>1, <1>2, <2>1 DEF ShellTypeOK
      <4> QED BY <4>1, <4>2, <4>3 DEF Srcs
    <3> QED BY <1>1, <1>3, <1>5, <1>7, <2>1, <3>1 DEF Conserved, PastEof
  <2>2. CASE FillBuffer(t) /\ UNCHANGED <<good, got>>
    <3>1. PICK n \in 1..BufSz :
            /\ area[t].avail = 0
            /\ n <= content[rpipe[t]["out"]]
            /\ content' = [content EXCEPT ![rpipe[t]["out"]] = @ - n]
            /\ area' = [area EXCEPT ![t] = [buf |-> rbuffer[t][rsrc[t]], avail |-> n]]
      BY <1>1, <2>2 DEF FillBuffer
    <3>2. content'[rpipe[t]["out"]] = content[rpipe[t]["out"]] - n /\ area'[t].avail = n
      BY <1>1, <1>2, <3>1 DEF TypeOK
    <3> QED BY <1>1, <1>3, <1>5, <1>7, <2>2, <3>1, <3>2 DEF Conserved, PastEof
  <2>3. CASE FillBufferEof(t) /\ good' = [good EXCEPT ![t] = FALSE] /\ UNCHANGED got
    <3>1. /\ content' = content /\ area[t].avail = 0 /\ ~good'[t]
          /\ content[rpipe[t]["out"]] = 0 /\ ~HasWriter(rpipe[t]["out"])
      BY <1>1, <1>2, <2>3, NotNone DEF FillBufferEof, AtEof, kernel, ShellTypeOK
    <3>2. child[t].std["out"] = None
      <4>1. child[t].std["out"] # None => child[t].std["out"] = rpipe[t]["out"]
        BY <1>1, <1>2 DEF Worker, Connected, Srcs
      <4>2. child[t].std["out"] # None => <<child[t].std["out"], "wr">> \in child[t].fds
        BY DEF SInv, IInv, Ownership, StreamsHeld, Srcs
      <4> QED BY <3>1, <4>1, <4>2 DEF HasWriter
    <3>3. ~HasWriter(rpipe[t]["out"])'
      BY <1>3, <3>1 DEF HasWriter
    <3> QED BY <1>1, <1>3, <1>5, <1>7, <2>3, <3>1, <3>2, <3>3 DEF Conserved, PastEof
  <2> QED BY <2>1, <2>2, <2>3 DEF Getline
<1> QED BY <1>2, <1>3, <1>4, <1>6, <1>8, AnswersKept DEF Worker

\* err() is the same stream, turned to standard error.
LEMMA WorkerSwitchToErr ==
  ASSUME SInv, NEW t \in Bufs, SwitchToErr(t)
  PROVE  Worker(t)'
<1>1. Worker(t) /\ ShellTypeOK /\ TypeOK /\ pc[t] = "out" /\ ~good[t] /\ pc'[t] = "err"
  BY DEF SInv, IInv, SwitchToErr, Goto, ShellTypeOK
<1>2. /\ op' = op /\ child' = child /\ ppid' = ppid /\ rpipe' = rpipe /\ pair' = pair /\ fds' = fds
      /\ content' = content /\ UNCHANGED <<fp, replies, aborted, good, got>>
  BY DEF SwitchToErr, ReadErr, kernel, vars
<1>3. Phase(t)'
  BY <1>1, <1>2 DEF Worker, Phase, IsOpen, Shut
<1>4. Pipe(t, "out")' = Pipe(t, "out") /\ Pipe(t, "err")' = Pipe(t, "err") /\ (Reading(t)' <=> Reading(t))
  BY <1>1, <1>2 DEF Pipe, Reading, IsOpen
<1>5. Connected(t)'
  <2>1. op[t] = "idle" /\ Connected(t)
    BY <1>1 DEF Worker, Phase
  <2> QED BY <1>2, <1>4, <2>1 DEF Connected, Srcs
<1>6. Conserved(t)' /\ PastEof(t)'
  BY <1>1, <1>2, <1>4 DEF Worker, Phase, Conserved, PastEof, HasWriter, IsOpen
<1> QED BY <1>1, <1>2, <1>3, <1>5, <1>6, AnswersKept DEF Worker

-----------------------------------------------------------------------------
(* Closing the stream buffer.                                              *)

\* close() begins,
LEMMA WorkerCloseBegin ==
  ASSUME SInv, NEW t \in Bufs, pc[t] = "close", CloseBegin(t), Goto(t, "closing"),
         UNCHANGED <<fp, replies, good, got, aborted>>
  PROVE  Worker(t)'
<1>1. /\ Worker(t) /\ ShellTypeOK /\ TypeOK /\ pc'[t] = "closing" /\ ~good[t] /\ op'[t] = "drop"
      /\ rpipe' = rpipe /\ pair' = pair /\ fds' = fds /\ content' = content
  BY DEF SInv, IInv, Worker, Phase, CloseBegin, Goto, ShellTypeOK, TypeOK
<1>2. \/ Reap(t) /\ child'[t] = NoChild /\ ~IsOpen(t)'
      \/ child' = child /\ ppid' = ppid
  BY <1>1 DEF CloseBegin, Reap, IsOpen, TypeOK
<1>3. Phase(t)'
  BY <1>1, <1>2 DEF Worker, Phase, IsOpen
<1>4. Connected(t)' /\ Conserved(t)'
  BY <1>1 DEF Worker, Connected, Conserved, Reading
<1>5. PastEof(t)'
  <2>1. ASSUME NEW c \in Bufs PROVE child'[c].fds \in SUBSET child[c].fds
    <3>1. CASE Reap(t)
      <4>1. child'[c] = IF c = t THEN NoChild ELSE child[c]
        BY <1>1, <3>1 DEF Reap, TypeOK
      <4> QED BY <4>1 DEF NoChild
    <3>2. CASE child' = child
      BY <3>2
    <3> QED BY <1>2, <3>1, <3>2
  <2>2. rpipe[t]["out"] # None /\ ~HasWriter(rpipe[t]["out"]) => ~HasWriter(rpipe[t]["out"])'
    BY <1>1, <2>1 DEF HasWriter
  <2> QED BY <1>1, <1>2, <2>2 DEF Worker, PastEof, IsOpen, Phase
<1> QED BY <1>1, <1>3, <1>4, <1>5, AnswersKept DEF Worker

\* closes the ends and waits for the command,
LEMMA WorkerCloseStep ==
  ASSUME SInv, NEW t \in Bufs, pc[t] = "closing", CloseStep(t), UNCHANGED local
  PROVE  Worker(t)'
<1>1. /\ Worker(t) /\ ShellTypeOK /\ TypeOK /\ pc'[t] = "closing" /\ ~good[t] /\ ~good'[t]
      /\ got' = got /\ rpipe[t] \in [Srcs -> MaybePipe]
  BY DEF local, SInv, IInv, Worker, Phase, TypeOK
<1>2. CASE CloseEnd(t)
  <2>1. First(todo[t]) \in Srcs
    BY <1>1, <1>2, FirstIn DEF CloseEnd, TypeOK
  <2>2. /\ op' = op /\ op[t] = "drop" /\ child' = child /\ ppid' = ppid /\ pair' = pair
        /\ fds' \in SUBSET fds /\ rpipe'[t]["out"] \in {rpipe[t]["out"], None}
    BY <1>1, <1>2, <2>1 DEF CloseEnd, TypeOK, Srcs
  <2>3. Phase(t)'
    BY <1>1, <2>2 DEF local, Worker, Phase, IsOpen
  <2>4. PastEof(t)'
    BY <1>1, <2>2 DEF Worker, PastEof, IsOpen, HasWriter
  <2> QED BY <1>1, <2>2, <2>3, <2>4, AnswersKept DEF local, Worker, Connected, Conserved, Reading
<1>3. CASE CloseWait(t)
  <2>1. /\ op[t] = "drop" /\ child' = child /\ ppid' = ppid /\ pair' = pair /\ fds' = fds /\ rpipe' = rpipe
        /\ op'[t] = IF IsOpen(t) THEN "wait" ELSE "idle"
    BY <1>1, <1>3 DEF CloseWait, kernel, TypeOK
  <2>2. Shut(t)
    BY <1>3, <2>1 DEF CloseWait, Shut, SInv, IInv, Ownership, PhasesConsistent
  <2>3. Phase(t)'
    BY <1>1, <2>1, <2>2 DEF local, Worker, Phase, IsOpen, Shut
  <2>4. PastEof(t)'
    BY <1>1, <2>1 DEF Worker, PastEof, IsOpen, HasWriter
  <2> QED BY <1>1, <2>1, <2>3, <2>4, AnswersKept DEF local, Worker, Connected, Conserved, Reading
<1>4. CASE Wait(t)
  <2>1. /\ op[t] = "wait" /\ child'[t] = NoChild /\ ppid'[t] = "reaped" /\ pair' = pair
        /\ fds' = fds /\ rpipe' = rpipe /\ op'[t] = "idle"
    BY <1>1, <1>4 DEF Wait, Reap, TypeOK
  <2>2. Shut(t)
    BY <2>1 DEF Shut, SInv, IInv, Ownership, PhasesConsistent
  <2>3. Phase(t)'
    BY <1>1, <2>1, <2>2 DEF local, Worker, Phase, IsOpen, Shut
  <2>4. PastEof(t)'
    BY <2>1 DEF PastEof, IsOpen
  <2> QED BY <1>1, <2>1, <2>3, <2>4, AnswersKept DEF local, Worker, Connected, Conserved, Reading
<1> QED BY <1>2, <1>3, <1>4 DEF CloseStep

\* and the handler returns with the stream destroyed.
LEMMA WorkerDestroyed ==
  ASSUME SInv, NEW t \in Bufs, Destroyed(t)
  PROVE  Worker(t)'
<1>1. /\ Worker(t) /\ ShellTypeOK /\ TypeOK /\ pc[t] = "closing" /\ pc'[t] = "return" /\ good'[t]
      /\ op' = op /\ child' = child /\ pair' = pair /\ rpipe' = rpipe
      /\ op[t] = "idle" /\ ~IsOpen(t) /\ ppid'[t] = "unset" /\ area'[t] = NullArea
      /\ got'[t] = [s \in Srcs |-> 0]
      /\ UNCHANGED <<fp, replies, aborted>>
  BY DEF SInv, IInv, Destroyed, Recycle, Goto, ShellTypeOK, TypeOK, kernel
<1>2. Phase(t)'
  BY <1>1 DEF Worker, Phase, IsOpen, Shut, NullArea, Srcs
<1>3. Connected(t)' /\ Conserved(t)' /\ PastEof(t)'
  BY <1>1 DEF Connected, Conserved, PastEof, Reading, IsOpen, Srcs
<1> QED BY <1>1, <1>2, <1>3, AnswersKept DEF Worker

-----------------------------------------------------------------------------
(* The command.                                                            *)

\* The worker's command takes a step.
LEMMA WorkerCommand ==
  ASSUME SInv, NEW t \in Bufs, CommandStep(t)
  PROVE  Worker(t)'
<1>1. /\ Worker(t) /\ TypeOK /\ local' = local /\ object' = object /\ fds' = fds
      /\ child[t].st # "none" /\ child'[t].st # "none"
      /\ \A s \in Srcs : child'[t].std[s] # None => child'[t].std[s] = child[t].std[s]
      /\ \A c \in Bufs : child'[c].fds \in SUBSET child[c].fds
  <2>1. ChildStep(t) /\ TypeOK
    BY DEF CommandStep, SInv, IInv
  <2> QED BY <2>1, CommandShrinks DEF CommandStep, SInv, Shrinks
<1>2. IsOpen(t) /\ op[t] # "pipes"
  <2>1. pc[t] \in Locations
    BY DEF SInv, ShellTypeOK
  <2> QED BY <1>1, <2>1 DEF Worker, Phase, NoChild, Locations
<1>3. Phase(t)'
  BY <1>1, <1>2 DEF local, object, Worker, Phase, IsOpen, Shut
<1>4. Pipe(t, "out")' = Pipe(t, "out") /\ Pipe(t, "err")' = Pipe(t, "err") /\ (Reading(t)' <=> Reading(t))
  BY <1>1 DEF local, object, Pipe, Reading, IsOpen
<1>5. Connected(t)'
  BY <1>1, <1>2, <1>4 DEF object, Worker, Connected, Srcs
<1>6. PastEof(t)'
  <2>1. rpipe[t]["out"] # None /\ ~HasWriter(rpipe[t]["out"]) => ~HasWriter(rpipe[t]["out"])'
    BY <1>1 DEF object, HasWriter
  <2> QED BY <1>1, <1>2, <2>1 DEF local, object, Worker, PastEof, IsOpen, Srcs
<1>7. Conserved(t)'
  <2> SUFFICES ASSUME Reading(t)
      PROVE  child'[t].wrote["out"] =
               got[t]["out"] + IF good[t] THEN area[t].avail + content'[Pipe(t, "out")] ELSE 0
    BY <1>1, <1>2, <1>4 DEF local, object, Worker, Conserved
  <2>1. /\ child[t] \in Commands /\ content \in [PipeIds -> 0..PipeCap] /\ area[t].avail \in Nat
        /\ got[t]["out"] \in Nat /\ child[t].wrote \in [Srcs -> 0..Budget]
    <3>1. area[t] \in [buf : Nat, avail : Nat] /\ got[t] \in [Srcs -> Nat] /\ child[t] \in Commands
      BY <1>1 DEF SInv, TypeOK, ShellTypeOK
    <3> QED BY <1>1, <3>1 DEF TypeOK, Commands, Srcs
  <2>2. Pipe(t, "out") \in PipeIds
    BY <1>1 DEF Worker, Connected, Pipe, TypeOK, MaybePipe, Srcs
  <2>3. child[t].wrote["out"] =
          got[t]["out"] + IF good[t] THEN area[t].avail + content[Pipe(t, "out")] ELSE 0
    BY <1>1 DEF Worker, Conserved
  <2>4. CASE ChildWrite(t, "out")
    <3>1. child[t].std["out"] # None /\ child[t].std["out"] = Pipe(t, "out")
      BY <1>1, <2>4 DEF ChildWrite, SInv, IInv, CommandsConsistent, Worker, Connected, Srcs
    <3>2. good[t]
      BY <1>1, <1>2, <3>1 DEF Worker, PastEof
    <3>3. content'[Pipe(t, "out")] = content[Pipe(t, "out")] + 1
      BY <2>1, <2>2, <2>4, <3>1 DEF ChildWrite
    <3>4. child'[t].wrote["out"] = child[t].wrote["out"] + 1
      BY <1>1, <2>1, <2>4 DEF ChildWrite, TypeOK, Commands, Srcs
    <3> QED BY <2>1, <2>2, <2>3, <3>2, <3>3, <3>4
  <2>5. CASE ChildWrite(t, "err")
    <3>1. child[t].std["err"] # None /\ child[t].std["err"] = Pipe(t, "err")
      BY <1>1, <2>5 DEF ChildWrite, SInv, IInv, CommandsConsistent, Worker, Connected, Srcs
    <3>2. Pipe(t, "err") # Pipe(t, "out")
      BY <2>2, <3>1, NotNone DEF SInv, IInv, Ownership, EndsOwnedOnce, Pipe, Srcs
    <3>3. content'[Pipe(t, "out")] = content[Pipe(t, "out")]
      BY <2>1, <2>2, <2>5, <3>1, <3>2 DEF ChildWrite
    <3>4. child'[t].wrote["out"] = child[t].wrote["out"]
      BY <1>1, <2>1, <2>5 DEF ChildWrite, TypeOK, Commands, Srcs
    <3> QED BY <2>3, <3>3, <3>4
  <2>6. CASE content' = content /\ child'[t].wrote = child[t].wrote
    BY <2>3, <2>6
  <2>7. ChildWrite(t, "out") \/ ChildWrite(t, "err") \/ (content' = content /\ child'[t].wrote = child[t].wrote)
    <3>1. ASSUME NEW s \in Srcs, ChildStartWrite(t, s) \/ ChildClose(t, s)
          PROVE  content' = content /\ child'[t].wrote = child[t].wrote
      BY <1>1, <2>1, <3>1 DEF ChildStartWrite, ChildClose, TypeOK, Commands
    <3>2. CASE content' = content /\ child' = [child EXCEPT ![t] = Dead(@)]
      <4>1. child'[t] = Dead(child[t])
        BY <1>1, <3>2 DEF TypeOK
      <4>2. Dead(child[t]).wrote = child[t].wrote
        BY <2>1 DEF Dead, Commands
      <4> QED BY <3>2, <4>1, <4>2
    <3> QED BY <3>1, <3>2 DEF CommandStep, ChildStep, ChildSigPipe, ChildExit, Srcs
  <2> QED BY <2>4, <2>5, <2>6, <2>7
<1> QED BY <1>1, <1>3, <1>5, <1>6, <1>7, AnswersKept DEF local, Worker

-----------------------------------------------------------------------------
(* The invariant.                                                          *)

ShellStep(t) == (~aborted /\ Request(t)) \/ HandlerStep(t) \/ CommandStep(t)

\* The handler uses its stream buffer as a tidy client of PStream does.
LEMMA ShellUsesTidily ==
  ASSUME SInv, NEW t \in Bufs, ShellStep(t)
  PROVE  ObjectStep(t) \/ UNCHANGED vars
<1>1. CASE StartProc(t)
  <2>1. ASSUME pc[t] = "open", Open(t, Srcs) PROVE TidyStep(t)
    <3>1. \A s \in Srcs : rpipe[t][s] = None
      BY <2>1 DEF SInv, Worker, Phase, Shut
    <3>2. Closed(t)
      BY <3>1 DEF Closed, NoPipes, SInv, IInv, TypeOK
    <3> QED BY <2>1, <3>2, ShellAssumption DEF TidyStep, ClientStep
  <2> QED BY <1>1, <2>1 DEF StartProc, ObjectStep
<1>2. CASE Getline(t) \/ SwitchToErr(t) \/ DestroyProc(t)
  <2>1. ASSUME \/ Consume(t) \/ FillBuffer(t) \/ FillBufferEof(t)
               \/ (\E s \in Srcs : ReadErr(t, s)) \/ CloseBegin(t)
        PROVE  TidyStep(t)
    <3>1. op'[t] # "pipes"
      BY <2>1 DEF Consume, FillBuffer, FillBufferEof, ReadErr, CloseBegin, SInv, IInv, TypeOK
    <3> QED BY <2>1, <3>1 DEF TidyStep, ClientStep, ReadStep
  <2> QED BY <1>2, <2>1 DEF Getline, SwitchToErr, DestroyProc, ObjectStep, Srcs
<1>3. CASE Destroyed(t) \/ CommandStep(t)
  BY <1>3 DEF Destroyed, CommandStep, ObjectStep
<1>4. CASE PlainStep(t)
  BY <1>4 DEF PlainStep, Request, Fopen, Throw, ParseFails, ParseOk, NoCmd, ReadDone,
         SendOutput, Return
<1> QED BY <1>1, <1>2, <1>3, <1>4 DEF ShellStep, HandlerStep, PlainStep

\* Whatever a worker does, it is where Worker says.
LEMMA OwnWorker ==
  ASSUME SInv, NEW t \in Bufs, ShellStep(t)
  PROVE  Worker(t)'
<1>1. CASE StartProc(t)
  <2>1. CASE pc[t] = "open"
    BY <1>1, <2>1, WorkerOpen
  <2>2. CASE pc[t] = "opening" /\ OpenStep(t)
    <3>1. \/ \E p \in PipeIds : MakePipe(t, p) /\ op'[t] # "idle"
          \/ OpenFails(t)
          \/ Fork(t) /\ op'[t] # "idle"
          \/ StoreEnd(t) /\ op'[t] # "idle"
          \/ CreateBuffers(t)
      BY <2>2 DEF OpenStep, MakePipe, Fork, StoreEnd, SInv, IInv, TypeOK
    <3>2. op'[t] # "idle" => UNCHANGED local
      BY <1>1, <2>2 DEF StartProc, local
    <3> QED BY <1>1, <2>2, <3>1, <3>2, WorkerMakePipe, WorkerOpenFails, WorkerFork, WorkerStoreEnd,
               WorkerCreateBuffers
  <2> QED BY <1>1, <2>1, <2>2 DEF StartProc
<1>2. CASE DestroyProc(t)
  BY <1>2, WorkerCloseBegin, WorkerCloseStep DEF DestroyProc
<1>3. CASE PlainStep(t) /\ ~aborted
  BY <1>3, WorkerPlain
<1> QED BY <1>1, <1>2, <1>3, WorkerGetline, WorkerSwitchToErr, WorkerDestroyed, WorkerCommand
    DEF ShellStep, HandlerStep, PlainStep

\* Whatever it does, so are the others.
LEMMA OtherWorkers ==
  ASSUME SInv, NEW t \in Bufs, ShellStep(t), NEW u \in Bufs, u # t
  PROVE  Worker(u)'
<1>1. SameLocals(u)
  <2>1. CASE PlainStep(t) /\ ~aborted
    <3>1. /\ pc'[u] = pc[u] /\ replies'[u] = replies[u] /\ good'[u] = good[u] /\ got'[u] = got[u]
      BY <2>1 DEF PlainStep, Request, Fopen, Throw, ParseFails, ParseOk, NoCmd, ReadDone,
         SendOutput, Return, Goto, Send, SInv, ShellTypeOK
    <3>2. fp'[u] = "open" => fp[u] = "open"
      BY <2>1 DEF PlainStep, Request, Fopen, Throw, ParseFails, ParseOk, NoCmd, ReadDone,
         SendOutput, Return, Fclose, SInv, ShellTypeOK
    <3> QED BY <2>1, <3>1, <3>2 DEF SameLocals
  <2>2. CASE StartProc(t) \/ Getline(t) \/ SwitchToErr(t) \/ DestroyProc(t) \/ Destroyed(t)
    BY <2>2 DEF StartProc, Getline, SwitchToErr, DestroyProc, Destroyed, Goto, SInv, ShellTypeOK,
       SameLocals, local
  <2>3. CASE CommandStep(t)
    BY <2>3 DEF CommandStep, SameLocals, local
  <2> QED BY <2>1, <2>2, <2>3 DEF ShellStep, HandlerStep, PlainStep
<1> QED BY <1>1, ShellUsesTidily, OthersUndisturbed, WorkerKept DEF SInv

\* Sequences of answers.
LEMMA SeqTypes ==
  ASSUME NEW S
  PROVE  <<>> \in Seq(S) /\ \A q \in Seq(S) : \A a \in S : Append(q, a) \in Seq(S)
OBVIOUS

\* Every step keeps the types of the handler's variables.
LEMMA ShellTypeStep ==
  ASSUME SInv, NEW t \in Bufs, ShellStep(t)
  PROVE  ShellTypeOK'
<1>1. CASE PlainStep(t)
  <2>1. pc' \in [Bufs -> Locations] /\ good' = good /\ got' = got
    BY <1>1 DEF PlainStep, Request, Fopen, Throw, ParseFails, ParseOk, NoCmd, ReadDone,
         SendOutput, Return, Goto, SInv, ShellTypeOK, Locations
  <2>2. fp' \in [Bufs -> {"none", "open", "closed"}] /\ aborted' \in BOOLEAN
    BY <1>1 DEF PlainStep, Request, Fopen, Throw, ParseFails, ParseOk, NoCmd, ReadDone,
         SendOutput, Return, Fclose, SInv, ShellTypeOK
  <2> DEFINE T == Seq({"500", "parse error", "no cmd", "output"})
  <2>3. ASSUME NEW a \in {"500", "parse error", "no cmd", "output"}, Send(t, a)
        PROVE  replies' \in [Bufs -> T]
    <3>1. replies \in [Bufs -> T]
      BY DEF SInv, ShellTypeOK
    <3>2. \A q \in T : Append(q, a) \in T
      BY SeqTypes
    <3> HIDE DEF T
    <3> QED BY <2>3, <3>1, <3>2 DEF Send
  <2>4. replies' \in [Bufs -> T]
    <3>1. replies \in [Bufs -> T] /\ <<>> \in T
      BY SeqTypes DEF SInv, ShellTypeOK
    <3>2. CASE UNCHANGED replies
      BY <3>1, <3>2
    <3>3. CASE Return(t)
      <4> HIDE DEF T
      <4> QED BY <3>1, <3>3 DEF Return
    <3>4. CASE Throw(t) \/ ParseFails(t) \/ SendOutput(t) \/ (NoCmd(t) /\ ~aborted')
      <4>1. Send(t, "500") \/ Send(t, "parse error") \/ Send(t, "output") \/ Send(t, "no cmd")
        BY <3>4 DEF Throw, ParseFails, SendOutput, NoCmd
      <4> QED BY <2>3, <4>1
    <3> QED BY <1>1, <3>2, <3>3, <3>4 DEF PlainStep, Request, Fopen, ParseOk, NoCmd, ReadDone
  <2> QED BY <2>1, <2>2, <2>4 DEF SInv, ShellTypeOK
<1>2. CASE StartProc(t) \/ SwitchToErr(t) \/ DestroyProc(t) \/ CommandStep(t)
  BY <1>2 DEF StartProc, SwitchToErr, DestroyProc, CommandStep, Goto, SInv, ShellTypeOK, Locations,
     IsOpen, local
<1>3. CASE Getline(t)
  <2>1. got' \in [Bufs -> [Srcs -> Nat]]
    <3>1. got \in [Bufs -> [Srcs -> Nat]]
      BY DEF SInv, ShellTypeOK
    <3>2. pc[t] \in Srcs => got[t][pc[t]] + 1 \in Nat
      BY <3>1
    <3> QED BY <1>3, <3>1, <3>2 DEF Getline
  <2> QED BY <1>3, <2>1 DEF Getline, SInv, ShellTypeOK
<1>4. CASE Destroyed(t)
  BY <1>4 DEF Destroyed, Goto, SInv, ShellTypeOK, Locations
<1> QED BY <1>1, <1>2, <1>3, <1>4 DEF ShellStep, HandlerStep, PlainStep

\* Before the first request everything is unused.
LEMMA ShellInvInit == ShellInit => SInv
<1> SUFFICES ASSUME ShellInit PROVE SInv
  OBVIOUS
<1>1. IInv
  BY TypeInit, ConsistentInit, OwnershipInit DEF IInv, ShellInit
<1>2. ShellTypeOK
  <2>1. replies \in [Bufs -> Seq({"500", "parse error", "no cmd", "output"})]
    <3>1. <<>> \in Seq({"500", "parse error", "no cmd", "output"})
      OBVIOUS
    <3> QED BY <3>1 DEF ShellInit
  <2> QED BY <2>1 DEF ShellInit, ShellTypeOK, Locations
<1>3. ASSUME NEW t \in Bufs PROVE Worker(t)
  BY DEF ShellInit, Init, Worker, Phase, Connected, Conserved, PastEof, FileClosed, Answered,
     Reading, IsOpen, Shut, NoPipes, NullArea, Srcs, Refusals
<1> QED BY <1>1, <1>2, <1>3 DEF SInv

\* Every step keeps the invariant of the handler.
LEMMA ShellInvStep == SInv /\ [ShellNext]_svars => SInv'
<1> SUFFICES ASSUME SInv, [ShellNext]_svars PROVE SInv'
  OBVIOUS
<1>1. CASE UNCHANGED svars
  <2>1. IInv'
    BY <1>1, TidyIsNext, TypeStep, ConsistentStep, OwnershipStep DEF svars, SInv, IInv
  <2>2. ShellTypeOK'
    BY <1>1 DEF svars, local, SInv, ShellTypeOK
  <2>3. ASSUME NEW u \in Bufs PROVE Worker(u)'
    <3>1. Undisturbed(u) /\ SameLocals(u)
      BY <1>1 DEF svars, local, vars, Undisturbed, Same, SameLocals, HasWriter
    <3> QED BY <3>1, WorkerKept DEF SInv
  <2> QED BY <2>1, <2>2, <2>3 DEF SInv
<1>2. ASSUME NEW t \in Bufs, ShellStep(t) PROVE SInv'
  <2>1. IInv'
    <3>1. CASE ObjectStep(t)
      BY <3>1, ObjectInv DEF SInv
    <3>2. CASE UNCHANGED vars
      BY <3>2, TidyIsNext, TypeStep, ConsistentStep, OwnershipStep DEF SInv, IInv
    <3> QED BY <1>2, <3>1, <3>2, ShellUsesTidily
  <2> QED BY <1>2, <2>1, OwnWorker, OtherWorkers, ShellTypeStep DEF SInv
<1> QED BY <1>1, <1>2 DEF ShellNext, ShellStep

\* The workers' invariant holds in every state, for any number of threads,
\* any capacity of the pipes and any contents of the configuration file.
THEOREM ShellInductive == ShellSpec => []SInv
BY ShellInvInit, ShellInvStep, PTL DEF ShellSpec

\* The handler's variables and its stream buffers keep their types.
THEOREM ShellTypes == ShellSpec => [](ShellTypeOK /\ TypeOK)
BY ShellInductive, PTL DEF SInv, IInv

\* The handler is a tidy client: with any number of requests in flight no pipe
\* end leaks, none has two owners, and no request reads another's output.
THEOREM ShellOwnership == ShellSpec => [](NoDescriptorLeak /\ EndsOwnedOnce /\ OwnOutputOnly)
BY ShellInductive, PTL DEF SInv, IInv, Ownership

\* When a request is over its file is closed, its pipes are closed and its
\* command is reaped, whatever the configuration held and whichever call failed.
THEOREM NothingHeld == ShellSpec => []IdleHoldsNothing
<1>1. SInv => IdleHoldsNothing
  <2> SUFFICES ASSUME SInv, NEW t \in Bufs, pc[t] = "return"
      PROVE  fp[t] # "open" /\ rpipe[t] = NoPipes /\ pair[t] = NoPipes /\ child[t].st = "none"
    BY DEF IdleHoldsNothing
  <2>1. fp[t] # "open" /\ op[t] = "idle" /\ Shut(t) /\ child[t].st = "none"
    BY DEF SInv, Worker, FileClosed, Phase, NoChild
  <2>2. \A s \in Srcs : rpipe[t][s] = None /\ pair[t][s] = None
    BY <2>1 DEF Shut, SInv, IInv, Ownership, PhasesConsistent
  <2>3. rpipe[t] = NoPipes /\ pair[t] = NoPipes
    BY <2>2 DEF NoPipes, SInv, IInv, TypeOK
  <2> QED BY <2>1, <2>3
<1> QED BY <1>1, ShellInductive, PTL

\* The answer of a request whose command was started carries every character
\* the command wrote to its standard output, however reads, writes and other
\* threads' commands interleave; standard error never gets into it.
THEOREM CarriesOutput == ShellSpec => []ReplyCarriesOutput
<1>1. SInv => ReplyCarriesOutput
  <2> SUFFICES ASSUME SInv, NEW t \in Bufs
      PROVE  /\ pc[t] \in {"send", "close"} /\ IsOpen(t) => got[t]["out"] = child[t].wrote["out"]
             /\ got[t]["err"] = 0
    BY DEF ReplyCarriesOutput
  <2>1. Worker(t) /\ got[t]["out"] \in Nat
    BY DEF SInv, ShellTypeOK, Srcs
  <2>2. pc[t] \in {"send", "close"} /\ IsOpen(t) => Reading(t) /\ ~good[t]
    BY <2>1 DEF Worker, Phase, Reading
  <2> QED BY <2>1, <2>2 DEF Worker, Conserved
<1> QED BY <1>1, ShellInductive, PTL

\* Two answers are sent only to a request whose configuration file did not
\* parse, although a second fclose() reaches into other threads.
THEOREM OneAnswer == ShellSpec => []SecondReplyOnlyAfterParseError
<1>1. SInv => SecondReplyOnlyAfterParseError
  <2> SUFFICES ASSUME SInv, NEW t \in Bufs, Len(replies[t]) > 1
      PROVE  replies[t] = <<"parse error", "no cmd">>
    BY DEF SecondReplyOnlyAfterParseError
  <2>1. Answered(t) /\ pc[t] \in Locations
    BY DEF SInv, Worker, ShellTypeOK
  <2>2. \/ replies[t] \in {<<>>, <<"parse error">>, <<"500">>, <<"no cmd">>, <<"output">>}
        \/ replies[t] = <<"parse error", "no cmd">>
    BY <2>1 DEF Answered, Locations, Refusals
  <2>3. replies[t] # <<>>
    OBVIOUS
  <2>4. ASSUME NEW a, replies[t] = <<a>> PROVE FALSE
    <3>1. Len(replies[t]) = 1
      BY <2>4
    <3> QED BY <3>1
  <2> QED BY <2>2, <2>3, <2>4
<1> QED BY <1>1, ShellInductive, PTL

-----------------------------------------------------------------------------
(* The handler as its HTTP server sees it.                                 *)

Serving == {t \in Bufs : pc[t] # "idle"}
Answers == [t \in Bufs |-> Len(replies[t])]

\* No answer and one.
LEMMA Lengths == Len(<<>>) = 0 /\ \A a : Len(<<a>>) = 1
<1>1. ASSUME NEW a PROVE Len(<<a>>) = 1
  OBVIOUS
<1> QED BY <1>1

\* A step that neither answers nor enters or leaves the handler.
LEMMA Stutters ==
  ASSUME ShellTypeOK, NEW t \in Bufs, replies' = replies,
         pc' = pc \/ (\E l \in Locations : pc[t] # "idle" /\ l # "idle" /\ Goto(t, l))
  PROVE  UNCHANGED <<Serving, Answers>>
BY DEF ShellTypeOK, Goto, Serving, Answers

\* A step that answers a request that has no answer yet.
LEMMA FirstAnswer ==
  ASSUME ShellTypeOK, NEW t \in Bufs, pc[t] # "idle", replies[t] = <<>>,
         NEW a, Send(t, a), NEW l \in Locations, l # "idle", Goto(t, l)
  PROVE  t \in Serving /\ Answers[t] = 0 /\ Answers' = [Answers EXCEPT ![t] = 1] /\ Serving' = Serving
<1>1. replies'[t] = <<a>> /\ \A u \in Bufs \ {t} : replies'[u] = replies[u]
  BY FirstReply DEF Send, ShellTypeOK
<1>2. Len(replies[t]) = 0 /\ Len(replies'[t]) = 1
  BY <1>1, Lengths
<1>3. t \in Serving /\ Serving' = Serving
  BY DEF ShellTypeOK, Goto, Serving
<1> QED BY <1>1, <1>2, <1>3 DEF Answers

\* A step of the handler is a step of RequestReply or a stutter, when every
\* configuration parses.
LEMMA ServesStep ==
  ASSUME "malformed" \notin Configs, SInv, ShellNext
  PROVE  RR!Next \/ UNCHANGED <<Serving, Answers>>
<1> PICK t \in Bufs : ShellStep(t)
  BY DEF ShellNext, ShellStep
<1>1. /\ ShellTypeOK /\ Answered(t) /\ pc[t] \in Locations
      /\ RR!Receive(t) \/ RR!Answer(t) \/ RR!Return(t) => RR!Next
  BY DEF SInv, Worker, ShellTypeOK, RR!Next
<1>2. CASE Request(t)
  <2>1. replies' = replies /\ pc[t] = "idle" /\ pc' = [pc EXCEPT ![t] = "fopen"]
    BY <1>2 DEF Request, Goto
  <2>2. t \notin Serving /\ Serving' = Serving \cup {t} /\ Answers' = Answers
    BY <1>1, <2>1 DEF Serving, Answers, ShellTypeOK
  <2> QED BY <1>1, <2>2 DEF RR!Receive, Serving, Answers
<1>3. CASE Throw(t) \/ SendOutput(t) \/ (NoCmd(t) /\ ~aborted')
  <2>1. pc[t] # "idle" /\ replies[t] = <<>>
    BY <1>1, <1>3 DEF Throw, SendOutput, NoCmd, Answered, Refusals
  <2>2. \/ Send(t, "500") /\ Goto(t, "return")
        \/ Send(t, "output") /\ Goto(t, "close")
        \/ Send(t, "no cmd") /\ Goto(t, "return")
    BY <1>3 DEF Throw, SendOutput, NoCmd
  <2>3. t \in Serving /\ Answers[t] = 0 /\ Answers' = [Answers EXCEPT ![t] = 1] /\ Serving' = Serving
    BY <1>1, <2>1, <2>2, FirstAnswer DEF Locations
  <2> QED BY <1>1, <2>3 DEF RR!Answer, Serving, Answers
<1>4. CASE Return(t)
  <2>1. pc[t] = "return" /\ pc' = [pc EXCEPT ![t] = "idle"] /\ replies' = [replies EXCEPT ![t] = <<>>]
    BY <1>4 DEF Return, Goto
  <2>2. Len(replies[t]) = 1
    BY <1>1, <2>1, Lengths DEF Answered
  <2>3. t \in Serving /\ Serving' = Serving \ {t}
    BY <1>1, <2>1 DEF Serving, ShellTypeOK
  <2>4. Answers[t] = 1 /\ Answers' = [Answers EXCEPT ![t] = 0]
    <3>1. replies'[t] = <<>> /\ \A u \in Bufs \ {t} : replies'[u] = replies[u]
      BY <1>1, <2>1 DEF ShellTypeOK
    <3>2. Len(replies'[t]) = 0
      BY <3>1, Lengths
    <3> QED BY <2>2, <3>1, <3>2 DEF Answers
  <2> QED BY <1>1, <2>3, <2>4 DEF RR!Return, Serving, Answers
<1>5. CASE Fopen(t) \/ ParseOk(t) \/ ReadDone(t) \/ (NoCmd(t) /\ aborted')
  BY <1>1, <1>5, Stutters DEF Fopen, ParseOk, ReadDone, NoCmd, Locations
<1>6. CASE StartProc(t) \/ Getline(t) \/ SwitchToErr(t) \/ DestroyProc(t) \/ Destroyed(t) \/ CommandStep(t)
  BY <1>1, <1>6, Stutters DEF StartProc, Getline, SwitchToErr, DestroyProc, Destroyed, CommandStep,
     Locations, local
<1> QED BY <1>2, <1>3, <1>4, <1>5, <1>6 DEF ShellStep, HandlerStep, ParseFails

\* As long as every configuration file that is opened parses, each request is
\* answered exactly once before its worker takes the next one: the handler
\* implements RequestReply, step by step, for any number of threads.
THEOREM Serves ==
  ASSUME "malformed" \notin Configs
  PROVE  ShellSpec => RR!Spec
<1>1. ShellInit => RR!Init
  BY Lengths DEF ShellInit, RR!Init
<1>2. SInv /\ [ShellNext]_svars => [RR!Next]_(RR!rrvars)
  <2> SUFFICES ASSUME SInv, [ShellNext]_svars PROVE [RR!Next]_(RR!rrvars)
    OBVIOUS
  <2>1. CASE ShellNext
    BY <2>1, ServesStep DEF RR!rrvars, Serving, Answers
  <2>2. CASE UNCHANGED svars
    BY <2>2 DEF svars, local, RR!rrvars
  <2> QED BY <2>1, <2>2
<1> QED BY <1>1, <1>2, ShellInductive, PTL DEF ShellSpec, RR!Spec

-----------------------------------------------------------------------------
(* Standstill.                                                             *)

\* Command d keeps the read end of c's standard error open for good: it was
\* forked while c's pipes were open in the parent, and c's thread is not kept
\* from its end of file by d.
Behind(c, d) ==
  /\ child[c].std["err"] # None
  /\ <<child[c].std["err"], "rd">> \in child[d].fds
  /\ Pipe(c, "out") # None => <<Pipe(c, "out"), "wr">> \notin child[d].fds

\* pipe() is called for standard output first: who inherited an end of the
\* second pipe has both ends of the first.
Heirs(c) ==
  op[c] = "pipes" =>
    /\ "out" \in todo[c] => pair[c]["err"] = None
    /\ \A d \in Bufs :
         pair[c]["err"] # None /\ <<pair[c]["err"], "rd">> \in child[d].fds =>
           <<pair[c]["out"], "wr">> \in child[d].fds

\* Some command of every set is behind none of the others: the last one forked.
Ordered ==
  \A X \in SUBSET Bufs : X # {} => \E c \in X : \A d \in X : ~Behind(c, d)

DInv == Ordered /\ \A c \in Bufs : Heirs(c)

\* Only a fork() makes a command stand behind another, the new one.
LEMMA BehindStep ==
  ASSUME SInv, SInv', NEW t \in Bufs, ObjectStep(t), ~Fork(t),
         NEW c \in Bufs, NEW d \in Bufs, Behind(c, d)'
  PROVE  Behind(c, d)
<1> DEFINE e == child[c].std["err"]
           q == Pipe(c, "out")
<1>1. Shrinks(c) /\ Shrinks(d) /\ TypeOK
  BY CommandsShrink DEF SInv, IInv
<1>2. e # None /\ child'[c].std["err"] = e /\ <<e, "rd">> \in child[d].fds /\ <<e, "rd">> \in child'[d].fds
  BY <1>1 DEF Behind, Shrinks, Srcs
<1>3. IsOpen(c) /\ op[c] # "pipes"
  <2>1. pc[c] \in Locations /\ Phase(c)
    BY DEF SInv, ShellTypeOK, Worker
  <2>2. NoChild.std["err"] = None
    BY DEF NoChild, NoPipes, Srcs
  <2> QED BY <1>2, <2>1, <2>2 DEF Phase, Locations
<1>4. c # d
  BY <1>2 DEF SInv, IInv, CommandsConsistent, Srcs
<1>5. SUFFICES ASSUME q # None, <<q, "wr">> \in child[d].fds PROVE FALSE
  BY <1>2 DEF Behind
<1>6. q \in PipeIds /\ \A s \in Srcs : child[d].std[s] # q
  BY <1>4, <1>5, NotNone
     DEF Pipe, SInv, IInv, TypeOK, MaybePipe, Srcs, Ownership, PairsOwned, OwnOutputOnly
<1>7. <<q, "wr">> \in child'[d].fds
  BY <1>1, <1>2, <1>5, <1>6 DEF Shrinks
<1>8. Pipe(c, "out")' # q
  BY <1>5, <1>7 DEF Behind
<1>9. t = c
  BY <1>8, OthersSame DEF Pipe, Same, SInv, IInv
<1>10. CloseEnd(c) \/ StoreEnd(c)
  BY <1>3, <1>8, <1>9 DEF Pipe, ObjectStep, TidyStep, ClientStep, ReadStep, Open, ReadErr, Consume,
     FillBuffer, FillBufferEof, Exited, Kill, CloseBegin, OpenStep, MakePipe, OpenFails, Fork,
     CreateBuffers, CloseStep, CloseWait, Wait, ChildStep, ChildStartWrite, ChildWrite,
     ChildSigPipe, ChildClose, ChildExit, Recycle, kernel, object
<1>11. CASE StoreEnd(c)
  <2>1. First(todo[c]) \in todo[c] /\ First(todo[c]) \in Srcs
    BY <1>1, <1>11, FirstIn DEF StoreEnd, TypeOK
  <2>2. pair[c][First(todo[c])] # None /\ pair[c][First(todo[c])] \in MaybePipe
    BY <1>1, <1>11, <2>1 DEF StoreEnd, SInv, IInv, Ownership, PhasesConsistent, TypeOK
  <2>3. /\ rpipe'[c]["out"] = IF First(todo[c]) = "out" THEN pair[c]["out"] ELSE rpipe[c]["out"]
        /\ pair'[c]["out"] = IF First(todo[c]) = "out" THEN None ELSE pair[c]["out"]
    BY <1>1, <1>11, <2>1 DEF StoreEnd, TypeOK, Srcs
  <2> QED BY <1>8, <2>2, <2>3 DEF Pipe
<1>12. CASE CloseEnd(c)
  <2>1. op[c] = "drop" /\ pair[c]["out"] = None /\ q = rpipe[c]["out"]
    BY <1>12 DEF CloseEnd, SInv, IInv, Ownership, PhasesConsistent, Srcs, Pipe
  <2>2. pc[c] \in Locations /\ Phase(c) /\ PastEof(c)
    BY DEF SInv, ShellTypeOK, Worker
  <2>3. ~good[c]
    BY <2>1, <2>2 DEF Phase, Locations
  <2>4. ~HasWriter(q)
    BY <1>3, <1>5, <2>1, <2>2, <2>3 DEF PastEof
  <2> QED BY <1>5, <2>4 DEF HasWriter
<1> QED BY <1>10, <1>11, <1>12

\* A command that has just been forked is behind nobody, and nobody else
\* changes places.
LEMMA BehindFork ==
  ASSUME SInv, SInv', NEW t \in Bufs, Fork(t), Heirs(t),
         NEW c \in Bufs, NEW d \in Bufs, d # t \/ c = t, Behind(c, d)'
  PROVE  Behind(c, d) /\ c # t
<1>1. /\ child'[t].std = pair[t] /\ pair' = pair /\ rpipe' = rpipe /\ op[t] = "pipes"
      /\ \A b \in Bufs \ {t} : child'[b] = child[b]
  BY DEF SInv, IInv, TypeOK, Fork
<1>2. ASSUME c = t PROVE FALSE
  <2>1. pair[t]["err"] # None /\ <<pair[t]["err"], "rd">> \in child'[d].fds
    BY <1>1, <1>2 DEF Behind
  <2>2. d # t
    BY <1>1, <1>2, <2>1 DEF SInv, IInv, CommandsConsistent, Srcs
  <2>3. <<pair[t]["out"], "wr">> \in child'[d].fds
    BY <1>1, <2>1, <2>2 DEF Heirs
  <2>4. Connected(t) /\ todo[t] = {}
    BY DEF SInv, Worker, Fork
  <2>5. pair[t]["out"] # None
    BY <1>1, <2>4 DEF Connected
  <2> QED BY <1>1, <1>2, <2>3, <2>5 DEF Behind, Pipe
<1>3. CASE c # t
  BY <1>1, <1>3 DEF Behind, Pipe
<1> QED BY <1>2, <1>3

\* A step adds only the new command, and puts it behind none, so the order is kept.
LEMMA OrderedStep ==
  ASSUME SInv, SInv', DInv, NEW t \in Bufs, ObjectStep(t)
  PROVE  Ordered'
<1> SUFFICES ASSUME NEW X \in SUBSET Bufs, X # {}
             PROVE  \E c \in X : \A d \in X : ~Behind(c, d)'
  BY DEF Ordered
<1>1. PICK c \in X : \A d \in X : ~Behind(c, d)
  BY DEF DInv, Ordered
<1>2. CASE ~Fork(t)
  BY <1>1, <1>2, BehindStep
<1>3. CASE Fork(t) /\ t \in X
  BY <1>3, BehindFork DEF DInv
<1>4. CASE Fork(t) /\ t \notin X
  BY <1>1, <1>4, BehindFork DEF DInv
<1> QED BY <1>2, <1>3, <1>4

\* Whoever inherits from a call between its two pipe()s keeps to their order.
LEMMA HeirsStep ==
  ASSUME SInv, DInv, NEW t \in Bufs, ObjectStep(t), NEW c \in Bufs
  PROVE  Heirs(c)'
<1> SUFFICES ASSUME op'[c] = "pipes"
    PROVE  /\ "out" \in todo'[c] => pair'[c]["err"] = None
           /\ \A d \in Bufs :
                pair'[c]["err"] # None /\ <<pair'[c]["err"], "rd">> \in child'[d].fds =>
                  <<pair'[c]["out"], "wr">> \in child'[d].fds
  BY DEF Heirs
<1>1. TypeOK /\ Ownership /\ Heirs(c) /\ Phase(c) /\ Connected(c) /\ pc[c] \in Locations
  BY DEF SInv, IInv, DInv, Worker, ShellTypeOK
<1>2. op[c] = "pipes" => child[c] = NoChild
  BY <1>1 DEF Phase, Locations, IsOpen
<1>3. CASE t # c
  <2>1. op[c] = "pipes" /\ todo'[c] = todo[c] /\ pair'[c] = pair[c]
    BY <1>1, <1>3, OthersSame DEF Same
  <2> SUFFICES ASSUME NEW d \in Bufs, pair[c]["err"] # None, <<pair[c]["err"], "rd">> \in child'[d].fds
               PROVE  <<pair[c]["out"], "wr">> \in child'[d].fds
    BY <1>1, <2>1 DEF Heirs
  <2>2. pair[c]["out"] # None /\ pair[c]["out"] \in PipeIds
    BY <1>1, <2>1 DEF Heirs, Connected, TypeOK, MaybePipe, Srcs
  <2>3. CASE Fork(t) /\ d = t
    <3>1. <<pair[c]["out"], "wr">> \in fds
      BY <1>1, <2>2 DEF Ownership, NoDescriptorLeak, Srcs
    <3>2. <<pair[c]["out"], "wr">> \notin PairEnds(t)
      BY <1>1, <1>3, <2>2 DEF Ownership, EndsOwnedOnce, PairEnds, Srcs
    <3>3. child'[t].fds = ChildFds(t)
      BY <1>1, <2>3 DEF Fork, TypeOK
    <3> QED BY <2>3, <3>1, <3>2, <3>3 DEF ChildFds
  <2>4. CASE Fork(t) /\ d # t
    <3>1. child'[d] = child[d]
      BY <1>1, <2>4 DEF Fork, TypeOK
    <3> QED BY <1>1, <2>1, <3>1 DEF Heirs
  <2>5. CASE ~Fork(t)
    <3>1. Shrinks(d)
      BY <2>5, CommandsShrink DEF SInv
    <3>2. <<pair[c]["err"], "rd">> \in child[d].fds /\ child'[d].fds # {}
      BY <3>1 DEF Shrinks
    <3>3. <<pair[c]["out"], "wr">> \in child[d].fds
      BY <1>1, <2>1, <3>2 DEF Heirs
    <3>4. c # d
      BY <1>2, <2>1, <3>2 DEF NoChild
    <3>5. \A s \in Srcs : child[d].std[s] # pair[c]["out"]
      BY <1>1, <2>2, <3>4, NotNone DEF Ownership, PairsOwned, Srcs
    <3> QED BY <3>1, <3>2, <3>3, <3>5 DEF Shrinks
  <2> QED BY <2>3, <2>4, <2>5
<1>4. CASE t = c
  <2>1. CASE \E m \in Modes : Open(c, m)
    <3>1. pair'[c]["err"] = None
      BY <1>1, <2>1 DEF Open, Ownership, PhasesConsistent, Srcs
    <3> QED BY <3>1
  <2>2. ASSUME NEW p \in PipeIds, MakePipe(c, p)
        PROVE  ("out" \in todo'[c] => pair'[c]["err"] = None)
               /\ (pair'[c]["err"] # None => \A d \in Bufs : <<pair'[c]["err"], "rd">> \notin child'[d].fds)
    <3>1. /\ op[c] = "pipes" /\ child' = child
          /\ pair' = [pair EXCEPT ![c][First(todo[c])] = p]
          /\ todo' = [todo EXCEPT ![c] = @ \ {First(todo[c])}]
          /\ First(todo[c]) = IF "out" \in todo[c] THEN "out" ELSE "err"
      BY <2>2 DEF MakePipe, First
    <3>2. \A d \in Bufs : <<p, "rd">> \notin child'[d].fds
      BY <2>2, <3>1 DEF MakePipe, PipeFree, HasReader
    <3>3. CASE "out" \in todo[c]
      <4>1. pair'[c]["err"] = pair[c]["err"]
        BY <1>1, <3>1, <3>3 DEF TypeOK, Srcs
      <4> QED BY <1>1, <3>1, <3>3, <4>1 DEF Heirs
    <3>4. CASE "out" \notin todo[c]
      <4>1. pair'[c]["err"] = p /\ "out" \notin todo'[c]
        BY <1>1, <3>1, <3>4 DEF TypeOK, Srcs
      <4> QED BY <3>2, <4>1
    <3> QED BY <3>3, <3>4
  <2>3. (\E m \in Modes : Open(c, m)) \/ (\E p \in PipeIds : MakePipe(c, p))
    <3>1. op[c] = "pipes" => ~ChildStep(c)
      BY <1>1, <1>2, CommandShrinks DEF NoChild
    <3> QED BY <1>1, <1>4, <3>1 DEF ObjectStep, TidyStep, ClientStep, ReadStep, ReadErr, Consume,
         FillBuffer, FillBufferEof, Exited, Kill, CloseBegin, OpenStep, OpenFails, Fork, StoreEnd,
         CreateBuffers, CloseStep, CloseEnd, CloseWait, Wait, ChildStep, ChildStartWrite,
         ChildWrite, ChildSigPipe, ChildClose, ChildExit, Recycle, kernel, object, TypeOK
  <2> QED BY <2>1, <2>2, <2>3
<1> QED BY <1>3, <1>4

\* Every step keeps both.
LEMMA DStep == SInv /\ SInv' /\ DInv /\ [ShellNext]_svars => DInv'
<1> SUFFICES ASSUME SInv, SInv', DInv, [ShellNext]_svars PROVE DInv'
  OBVIOUS
<1>1. CASE UNCHANGED vars
  BY <1>1 DEF vars, DInv, Ordered, Heirs, Behind, Pipe
<1>2. ASSUME NEW t \in Bufs, ObjectStep(t) PROVE DInv'
  BY <1>2, OrderedStep, HeirsStep DEF DInv
<1> QED BY <1>1, <1>2, ShellUsesTidily DEF ShellNext, ShellStep, svars

\* Without commands there is nothing to order.
LEMMA DInit == ShellInit => DInv
<1> SUFFICES ASSUME ShellInit PROVE DInv
  OBVIOUS
<1>1. \A c, d \in Bufs : ~Behind(c, d)
  BY DEF ShellInit, Init, Behind, NoChild, NoPipes, Srcs
<1>2. \A c \in Bufs : Heirs(c)
  BY DEF ShellInit, Init, Heirs
<1> QED BY <1>1, <1>2 DEF DInv, Ordered

\* Of any running commands there is one whose read ends no other of them keeps open,
\* because a command inherits only what was open when it was forked (fork(),
\* ShellCmd).
THEOREM OrderInductive == ShellSpec => [](SInv /\ DInv)
<1>1. SInv /\ DInv /\ [ShellNext]_svars => (SInv /\ DInv)'
  BY ShellInvStep, DStep
<1> QED BY <1>1, ShellInvInit, DInit, PTL DEF ShellSpec

\* If everybody waits, every running command is blocked on its standard error
\* while its thread waits for it to exit, unless a thread still reads.
LEMMA BlockedCommand ==
  ASSUME SInv, NEW c \in Bufs, Running(c), CommandWaits(c), pc[c] = "idle" \/ ThreadWaits(c),
         ~(child[c].st = "err" /\ pc[c] = "out")
  PROVE  \E d \in Bufs : Running(d) /\ Behind(c, d)
<1>1. /\ TypeOK /\ CommandsConsistent /\ Phase(c) /\ Connected(c) /\ PastEof(c) /\ pc[c] \in Locations
  BY DEF SInv, IInv, Worker, ShellTypeOK
<1>2. IsOpen(c) /\ pc[c] # "idle"
  BY <1>1 DEF Running, Phase, NoChild
<1>3. PICK s \in Srcs : child[c].st = s /\ HasReader(child[c].std[s]) /\ content[child[c].std[s]] = PipeCap
  BY DEF CommandWaits
<1>4. child[c].std[s] # None
  BY <1>1, <1>3 DEF CommandsConsistent
<1>5. op[c] = "wait"
  <2>1. ASSUME pc[c] = "out", good[c], content[Source(c)] = 0 PROVE FALSE
    <3>1. Source(c) = rpipe[c]["out"] /\ Pipe(c, "out") = rpipe[c]["out"] /\ Reading(c) /\ s = "out"
      BY <1>3, <2>1, ReadsOut DEF Srcs
    <3>2. child[c].std["out"] = rpipe[c]["out"]
      BY <1>1, <1>4, <3>1 DEF Connected, Srcs
    <3> QED BY <1>3, <2>1, <3>1, <3>2, ConstantsAssumption
  <2> QED BY <1>2, <2>1 DEF ThreadWaits
<1>6. s = "err"
  <2>1. ~good[c]
    BY <1>1, <1>5 DEF Phase, Locations
  <2> QED BY <1>1, <1>2, <1>4, <2>1 DEF PastEof, Srcs
<1>7. \A r \in Srcs : pair[c][r] = None /\ rpipe[c][r] = None
  BY <1>5 DEF SInv, IInv, Ownership, PhasesConsistent
<1>8. PICK d \in Bufs : <<child[c].std["err"], "rd">> \in child[d].fds
  <2> DEFINE p == child[c].std["err"]
  <2>1. p \in PipeIds /\ p # None
    BY <1>1, <1>4, <1>6 DEF TypeOK, Commands, MaybePipe
  <2>2. \A b \in Bufs : \A r \in Srcs : pair[b][r] # p /\ rpipe[b][r] # p
    BY <1>7, <2>1 DEF SInv, IInv, Ownership, PairsOwned, OwnOutputOnly, Srcs
  <2>3. HasReader(p)
    BY <1>3, <1>6
  <2> HIDE DEF p
  <2>4. <<p, "rd">> \notin fds
    BY <2>1, <2>2 DEF SInv, IInv, Ownership, NoDescriptorLeak
  <2> QED BY <2>3, <2>4 DEF HasReader, p
<1>9. Running(d)
  BY <1>1, <1>8 DEF CommandsConsistent
<1>10. Behind(c, d)
  BY <1>4, <1>6, <1>7, <1>8 DEF Behind, Pipe, Srcs
<1> QED BY <1>9, <1>10

\* The workers come to a standstill only when a command has filled the pipe of
\* its standard error while its thread still reads its standard output.  The
\* commands that other threads forked can delay each other's end of file and
\* SIGPIPE, but never in a circle.
THEOREM Standstill == ShellSpec => []StandstillNeedsFullStderr
<1>1. SInv /\ DInv => StandstillNeedsFullStderr
  <2> SUFFICES ASSUME SInv, DInv, NEW t \in Bufs, ThreadWaits(t),
                      \A u \in Bufs : (pc[u] = "idle" \/ ThreadWaits(u)) /\ CommandWaits(u),
                      \A c \in Bufs : ~(child[c].st = "err" /\ pc[c] = "out")
               PROVE  FALSE
    BY DEF StandstillNeedsFullStderr
  <2> DEFINE X == {c \in Bufs : Running(c)}
  <2>1. X # {}
    <3>1. CASE op[t] = "wait" /\ child[t].st # "zombie"
      <4>1. child[t] \in Commands /\ Phase(t) /\ pc[t] \in Locations
        BY DEF SInv, IInv, TypeOK, Worker, ShellTypeOK
      <4>2. child[t].st # "none"
        BY <3>1, <4>1 DEF Phase, Locations
      <4> QED BY <3>1, <4>1, <4>2 DEF Running, Commands
    <3>2. CASE pc[t] = "out" /\ good[t] /\ HasWriter(Source(t))
      <4>1. rpipe[t]["out"] \in PipeIds /\ rpipe[t]["out"] # None /\ Source(t) = rpipe[t]["out"]
        BY <3>2, ReadsOut, NotNone DEF Srcs
      <4>2. <<rpipe[t]["out"], "wr">> \notin fds
        <5> DEFINE q == rpipe[t]["out"]
        <5>1. q \in PipeIds /\ \A b \in Bufs, s \in Srcs : pair[b][s] # q
          BY <4>1 DEF SInv, IInv, Ownership, EndsOwnedOnce, Srcs
        <5> HIDE DEF q
        <5>2. <<q, "wr">> \notin fds
          BY <5>1 DEF SInv, IInv, Ownership, NoDescriptorLeak
        <5> QED BY <5>2 DEF q
      <4>3. PICK c \in Bufs : <<rpipe[t]["out"], "wr">> \in child[c].fds
        BY <3>2, <4>1, <4>2 DEF HasWriter
      <4> QED BY <4>3 DEF SInv, IInv, CommandsConsistent
    <3> QED BY <3>1, <3>2 DEF ThreadWaits
  <2>2. PICK c \in X : \A d \in X : ~Behind(c, d)
    BY <2>1 DEF DInv, Ordered
  <2> QED BY <2>2, BlockedCommand
<1> QED BY <1>1, OrderInductive, PTL
=============================================================================
