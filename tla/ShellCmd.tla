------------------------------ MODULE ShellCmd ------------------------------
(***************************************************************************)
(* Taraxacum::Routing::ShellCmd (include/Microservice.h): the handler that *)
(* runs the command of config.json and answers with its output.  Bufs is   *)
(* the set of worker threads; a thread has one ipstream at a time, so the  *)
(* stream buffer of thread t is buffer t of PStream.                       *)
(*                                                                         *)
(* Pistache (external) calls the handler on any of its threads, sends a    *)
(* 500 answer when the handler throws, and rapidjson (external) asserts    *)
(* that HasMember() is called on an object.                                *)
(***************************************************************************)
EXTENDS PStream, Sequences

CONSTANTS
  Configs,    \* what config.json may hold when a request opens it
  NDEBUG      \* the build drops assertions (CMAKE_BUILD_TYPE=Release)

ASSUME ShellAssumption ==
  /\ Configs \subseteq {"missing", "malformed", "nocmd", "cmd"}
  /\ Srcs \in Modes      \* ShellCmd opens pstdout | pstderr
  /\ NDEBUG \in BOOLEAN
  /\ MaxOpens > 0

VARIABLES
  pc,         \* where each worker thread is in ShellCmd
  fp,         \* its FILE*: "none", "open", or "closed" once fclose()d
  replies,    \* the answers sent to its current request
  good,       \* proc.good(): neither eofbit nor failbit is set
  got,        \* characters of each stream gathered in ssout and sserr
  aborted     \* the process died of an assertion or of undefined behaviour

local == <<pc, fp, replies, good, got, aborted>>
svars == <<vars, local>>

Locations == {"idle", "fopen", "parse", "throw", "nocmd", "open", "opening",
              "out", "err", "send", "close", "closing", "return"}

ShellTypeOK ==
  /\ pc \in [Bufs -> Locations]
  /\ fp \in [Bufs -> {"none", "open", "closed"}]
  /\ replies \in [Bufs -> Seq({"500", "parse error", "no cmd", "output"})]
  /\ good \in [Bufs -> BOOLEAN]
  /\ got \in [Bufs -> [Srcs -> Nat]]
  /\ aborted \in BOOLEAN

ShellInit ==
  /\ Init
  /\ pc = [t \in Bufs |-> "idle"]
  /\ fp = [t \in Bufs |-> "none"]
  /\ replies = [t \in Bufs |-> <<>>]
  /\ good = [t \in Bufs |-> TRUE]
  /\ got = [t \in Bufs |-> [s \in Srcs |-> 0]]
  /\ aborted = FALSE

Goto(t, l) == pc' = [pc EXCEPT ![t] = l]

Send(t, answer) == replies' = [replies EXCEPT ![t] = Append(@, answer)]

\* fclose(fp).  Closing a stream twice is undefined: the allocator may abort,
\* nothing may happen, or the freed FILE is by now another thread's.
Fclose(t) ==
  \/ /\ fp[t] = "open"
     /\ fp' = [fp EXCEPT ![t] = "closed"]
     /\ UNCHANGED aborted
  \/ /\ fp[t] = "closed"
     /\ \/ UNCHANGED <<fp, aborted>>
        \/ aborted' = TRUE /\ UNCHANGED fp
        \/ /\ \E u \in Bufs : fp[u] = "open" /\ fp' = [fp EXCEPT ![u] = "closed"]
           /\ UNCHANGED aborted

-----------------------------------------------------------------------------
Request(t) ==
  /\ pc[t] = "idle"
  /\ Goto(t, "fopen")
  /\ UNCHANGED <<vars, fp, replies, good, got, aborted>>

Fopen(t) ==
  /\ pc[t] = "fopen"
  /\ \/ /\ "missing" \in Configs
        /\ Goto(t, "throw")
        /\ UNCHANGED fp
     \/ /\ Configs # {"missing"}
        /\ Goto(t, "parse")
        /\ fp' = [fp EXCEPT ![t] = "open"]
  /\ UNCHANGED <<vars, replies, good, got, aborted>>

\* Mutant of Throw: the exception is swallowed and nobody answers.
ThrowSilent(t) ==
  /\ pc[t] = "throw"
  /\ Goto(t, "return")
  /\ UNCHANGED <<vars, fp, replies, good, got, aborted>>

\* The runtime_error leaves ShellCmd and Pistache answers in its place.
Throw(t) ==
  /\ pc[t] = "throw"
  /\ Send(t, "500")
  /\ Goto(t, "return")
  /\ UNCHANGED <<vars, fp, good, got, aborted>>

\* ParseStream() fails: the error is sent and the file closed, but there is
\* no return: HasMember() follows on a document that is not an object.
ParseFails(t) ==
  /\ pc[t] = "parse"
  /\ "malformed" \in Configs
  /\ Send(t, "parse error")
  /\ fp' = [fp EXCEPT ![t] = "closed"]
  /\ IF NDEBUG THEN Goto(t, "nocmd") /\ UNCHANGED aborted
               ELSE aborted' = TRUE /\ UNCHANGED pc
  /\ UNCHANGED <<vars, good, got>>

ParseOk(t) ==
  /\ pc[t] = "parse"
  /\ \/ "cmd" \in Configs /\ Goto(t, "open")
     \/ "nocmd" \in Configs /\ Goto(t, "nocmd")
  /\ UNCHANGED <<vars, fp, replies, good, got, aborted>>

\* The else branch: no "cmd" key.
NoCmd(t) ==
  /\ pc[t] = "nocmd"
  /\ Fclose(t)
  /\ IF aborted' THEN UNCHANGED <<replies, pc>>
                 ELSE Send(t, "no cmd") /\ Goto(t, "return")
  /\ UNCHANGED <<vars, good, got>>

\* redi::ipstream proc(cmd, pstdout | pstderr): do_open() sets failbit when
\* open() returns NULL.
StartProc(t) ==
  \/ /\ pc[t] = "open"
     /\ Open(t, Srcs)
     /\ Goto(t, "opening")
     /\ UNCHANGED <<fp, replies, good, got, aborted>>
  \/ /\ pc[t] = "opening"
     /\ OpenStep(t)
     /\ IF op'[t] = "idle"
          THEN good' = [good EXCEPT ![t] = IsOpen(t)] /\ Goto(t, "out")
          ELSE UNCHANGED <<good, pc>>
     /\ UNCHANGED <<fp, replies, got, aborted>>

\* while (std::getline(proc.out(), line)), and the same loop on proc.err().
\* The loops go on as long as the stream is good and gather every character.
Getline(t) ==
  /\ pc[t] \in Srcs
  /\ good[t]
  /\ \/ /\ Consume(t)
        /\ got' = [got EXCEPT ![t][pc[t]] = @ + 1]
        /\ UNCHANGED good
     \/ /\ FillBuffer(t)
        /\ UNCHANGED <<good, got>>
     \/ /\ FillBufferEof(t)
        /\ good' = [good EXCEPT ![t] = FALSE]
        /\ UNCHANGED got
  /\ UNCHANGED <<pc, fp, replies, aborted>>

\* Mutant of SwitchToErr: the first loop stops before end of file.
SwitchEarly(t) ==
  /\ pc[t] = "out"
  /\ IF rpipe[t]["err"] # None THEN ReadErr(t, "err") ELSE UNCHANGED vars
  /\ Goto(t, "err")
  /\ UNCHANGED <<fp, replies, good, got, aborted>>

\* proc.err() switches the buffer to stderr and returns the same stream, whose
\* eofbit is still set: the second loop's first getline() fails.
SwitchToErr(t) ==
  /\ pc[t] = "out"
  /\ ~good[t]
  /\ IF rpipe[t]["err"] # None THEN ReadErr(t, "err") ELSE UNCHANGED vars
  /\ Goto(t, "err")
  /\ UNCHANGED <<fp, replies, good, got, aborted>>

\* Mutant of ReadDone: the configuration file stays open.
ReadDoneKeepsFile(t) ==
  /\ pc[t] = "err"
  /\ ~good[t]
  /\ Goto(t, "send")
  /\ UNCHANGED <<vars, fp, aborted, replies, good, got>>

\* jresp is built, the configuration file closed.
ReadDone(t) ==
  /\ pc[t] = "err"
  /\ ~good[t]
  /\ Fclose(t)
  /\ IF aborted' THEN UNCHANGED pc ELSE Goto(t, "send")
  /\ UNCHANGED <<vars, replies, good, got>>

\* Mutant of SendOutput: no else before the answer about the missing key.
SendOutputFallsThrough(t) ==
  /\ pc[t] = "send"
  /\ Send(t, "output")
  /\ Goto(t, "nocmd")
  /\ UNCHANGED <<vars, fp, good, got, aborted>>

SendOutput(t) ==
  /\ pc[t] = "send"
  /\ Send(t, "output")
  /\ Goto(t, "close")
  /\ UNCHANGED <<vars, fp, good, got, aborted>>

\* The block ends: ~ipstream() closes the stream buffer.
DestroyProc(t) ==
  \/ /\ pc[t] = "close"
     /\ CloseBegin(t)
     /\ Goto(t, "closing")
     /\ UNCHANGED <<fp, replies, good, got, aborted>>
  \/ /\ pc[t] = "closing"
     /\ CloseStep(t)
     /\ UNCHANGED local

Destroyed(t) ==
  /\ pc[t] = "closing"
  /\ Recycle(t)
  /\ good' = [good EXCEPT ![t] = TRUE]
  /\ got' = [got EXCEPT ![t] = [s \in Srcs |-> 0]]
  /\ Goto(t, "return")
  /\ UNCHANGED <<fp, replies, aborted>>

\* Back in Pistache's loop; the response writer and fp are gone.
Return(t) ==
  /\ pc[t] = "return"
  /\ Goto(t, "idle")
  /\ fp' = [fp EXCEPT ![t] = "none"]
  /\ replies' = [replies EXCEPT ![t] = <<>>]
  /\ UNCHANGED <<vars, good, got, aborted>>

-----------------------------------------------------------------------------
\* What the thread does once it has a request.
HandlerStep(t) ==
  /\ ~aborted
  /\ \/ Fopen(t)
     \/ Throw(t)
     \/ ParseFails(t)
     \/ ParseOk(t)
     \/ NoCmd(t)
     \/ StartProc(t)
     \/ Getline(t)
     \/ SwitchToErr(t)
     \/ ReadDone(t)
     \/ SendOutput(t)
     \/ DestroyProc(t)
     \/ Destroyed(t)
     \/ Return(t)

CommandStep(t) == ChildStep(t) /\ UNCHANGED local

ShellNext ==
  \E t \in Bufs : \/ ~aborted /\ Request(t)
                  \/ HandlerStep(t)
                  \/ CommandStep(t)

ShellSpec == ShellInit /\ [][ShellNext]_svars

\* The scheduler runs every thread and every command that is not blocked.
ShellFairness == \A t \in Bufs : WF_svars(HandlerStep(t)) /\ WF_svars(CommandStep(t))

FairShellSpec == ShellSpec /\ ShellFairness

-----------------------------------------------------------------------------
(* Properties.                                                             *)

\* A worker that has left the handler left nothing behind, whichever path it
\* took: the file is closed, the pipes are closed, the command is reaped.
IdleHoldsNothing ==
  \A t \in Bufs : pc[t] = "return" =>
    /\ fp[t] # "open"
    /\ rpipe[t] = NoPipes /\ pair[t] = NoPipes
    /\ child[t].st = "none"

\* The answer carries all the command wrote to its standard output, and never
\* a character of its standard error.
ReplyCarriesOutput ==
  \A t \in Bufs :
    /\ pc[t] \in {"send", "close"} /\ IsOpen(t) => got[t]["out"] = child[t].wrote["out"]
    /\ got[t]["err"] = 0

\* Closing the file twice reaches other threads, but a second answer goes only
\* to the request whose own configuration did not parse.
SecondReplyOnlyAfterParseError ==
  \A t \in Bufs : Len(replies[t]) > 1 => replies[t] = <<"parse error", "no cmd">>

\* Everybody waits: no thread and no command can take a step.
ThreadWaits(t) ==
  \/ /\ pc[t] = "out" /\ good[t] /\ op[t] = "idle"
     /\ area[t].avail = 0 /\ Source(t) # None
     /\ content[Source(t)] = 0 /\ HasWriter(Source(t))
  \/ op[t] = "wait" /\ child[t].st # "zombie"

CommandWaits(c) ==
  \/ ~Running(c)
  \/ \E s \in Srcs : /\ child[c].st = s
                     /\ HasReader(child[c].std[s])
                     /\ content[child[c].std[s]] = PipeCap

\* The only way the workers come to a standstill is a command that fills the
\* pipe of its standard error while its thread still reads standard output:
\* never a full standard output, nor an end of file withheld by the parent or
\* by another thread's command alone.
StandstillNeedsFullStderr ==
  (/\ \E t \in Bufs : ThreadWaits(t)
   /\ \A t \in Bufs : (pc[t] = "idle" \/ ThreadWaits(t)) /\ CommandWaits(t))
  => \E c \in Bufs : child[c].st = "err" /\ pc[c] = "out"

\* The handler as its HTTP server sees it.
RR == INSTANCE RequestReply WITH
        Workers <- Bufs,
        serving <- {t \in Bufs : pc[t] # "idle"},
        answers <- [t \in Bufs |-> Len(replies[t])]

\* Every request is answered exactly once.
ServesRequests == RR!LiveSpec
=============================================================================
