----------------------------- MODULE EncoderProofs -----------------------------
(***************************************************************************)
(* The encoder job conserves buffers, touches no freed context and orders  *)
(* headers, frames, numbers and rate-control targets as H.264 and the      *)
(* controls ask, for any number of buffers, any controls and any hardware. *)
(*                                                                         *)
(* The counters are consistent only between a preparation of the codec and *)
(* the first job that ends without a result: after a timeout they are not, *)
(* but then no job can start until the codec is prepared again (Blocked).  *)
(* So the invariant describes the job that runs (InJob) and the state from *)
(* which the next one may start (Startable).                               *)
(***************************************************************************)
EXTENDS Encoder, M2mLemmas

InJob == pc \notin {"idle", "oops"}

\* the output is complete and the source buffer is back
Done == pc \in {"finish", "return", "ended"}

\* no job starts before the codec is prepared again
Blocked ==
  \/ job = "running"
  \/ \E q \in Queue : stream[q] \in {"cancel", "off"}
  \/ \A q \in Queue : stream[q] = "idle"

Startable == pc = "idle" /\ ~Blocked

\* the codec has been prepared, the second queue is not on yet
Fresh == \E q \in Queue : stream[q] = "on" /\ stream[Other(q)] = "idle"

StreamInv ==
  /\ \A q \in Queue : job = "running" => stream[q] \in {"on", "cancel"}
  /\ \A q \in Queue : stream[q] \in {"on", "cancel"} => allocated
  /\ \A q \in Queue : InJob => stream[q] # "idle"
  /\ InJob => Blocked
  /\ Fresh => starts = 0 /\ cmd = "none" /\ boost = 0

\* how many commands the hardware has had, by the command of the job, before
\* and after it is configured; 3 stands for more
StartsAt ==
  IF pc \in {"take", "configure"}
    THEN [sequence |-> {0, 3}, picture |-> {1, 3}, idr |-> {2, 3}, nonidr |-> {3}]
    ELSE [sequence |-> {1, 3}, picture |-> {2, 3}, idr |-> {3}, nonidr |-> {3}]

IsHeader(c) == c \in {"sequence", "picture"}

CountInv ==
  /\ starts < 3 => frameNumber = 0 /\ lastIdr = IdMod
  /\ InJob => /\ cmd # "none" /\ starts \in StartsAt[cmd]
              /\ cmd # "nonidr" => frameNumber = 0
              /\ cmd = "nonidr" => frameNumber \in 1 .. (ctl.gop - 1)
              /\ IsHeader(cmd) /\ starts = 3 => ctl.repeat
              /\ Done => IsFrame(cmd) \/ (cmd = "picture" /\ ~ctl.join)
  /\ Startable => /\ starts # 1
                  /\ cmd = "picture" =>
                       starts # 0 /\ ~ctl.join /\ (starts = 3 => ctl.repeat)

HeaderInv ==
  /\ delivered = "bare" => failed
  /\ frameNumber > 0 => delivered \in {"frames", "bare"}
  /\ InJob /\ pc # "ended" /\ IsFrame(cmd) /\ delivered = "nothing" /\ ~headed => failed
  /\ pc = "ended" => /\ delivered # "nothing"
                     /\ IsFrame(cmd) => delivered \in {"frames", "bare"}
  /\ Startable /\ starts # 0 /\ delivered = "nothing" => failed

\* every IDR frame has a number of its own, unless separate headers repeat
Numbers == ctl.join \/ ~ctl.repeat

NumberInv ==
  ~failed =>
    /\ InJob /\ pc # "ended" /\ (cmd = "idr" \/ (IsHeader(cmd) /\ ctl.join)) =>
         idrPicId # lastIdr
    /\ InJob /\ cmd = "nonidr" /\ Numbers => lastIdr = idrPicId
    /\ pc = "ended" /\ IsFrame(cmd) /\ Numbers => lastIdr = idrPicId
    /\ Startable /\ starts = 3 /\ Numbers => lastIdr = idrPicId

Raised == cmd = "idr" /\ (pc \in {"wait", "abort"} \/ (pc = "configure" /\ second))

TargetInv ==
  /\ boost > 0 => ctl.rc
  /\ ~failed => boost <= 1 /\ ((InJob /\ ~Raised) \/ Startable => boost = 0)

\* What the thread relies on until STOP has raced it.  STREAMOFF may finish its job
\* only once the context is marked stopped; what vb2 takes back from the task then
\* cannot be queued again, its queue being off.
JobInv ==
  /\ InJob => dstBuf # NoBuf /\ (job = "running" \/ overtaken)
  /\ overtaken => pc \in {"ended", "abort"} /\ job = "none"
  /\ pc \in {"take", "configure", "wait", "finish", "return"} => ~hasStopped
  /\ pc = "idle" => srcBuf = NoBuf /\ dstBuf = NoBuf
  /\ Done \/ (IsHeader(cmd) /\ ~ctl.join) => srcBuf = NoBuf
  /\ pc = "take" => Ready("dst") /\ Head(rdy["dst"]) = dstBuf
  /\ pc \in {"take", "configure", "wait"} /\ cmd = "nonidr" =>
       srcBuf # NoBuf /\ srcBuf \notin key
  /\ pc = "abort" => \A b \in InTask : vb[b] = "active" \/ stream[QueueOf(b)] = "off"

Conserved ==
  /\ Active = InReady \cup Taken \cup dropped
  /\ InReady \cap Taken = {} /\ dropped \cap (InReady \cup Taken) = {}
  /\ \A q \in Queue : IsInjective(rdy[q])

CommandInv == StreamInv /\ CountInv /\ HeaderInv /\ NumberInv /\ TargetInv
IInv       == TypeOK /\ CommandInv /\ NoCrash /\ (~raced /\ pc # "oops" => JobInv /\ Conserved)

-----------------------------------------------------------------------------
LEMMA ModFacts ==
  ASSUME NEW m \in Nat \ {0}
  PROVE  /\ 0 % m = 0 /\ m % m = 0
         /\ \A n \in 0 .. (m - 1) : (n + 1) % m \in 0 .. (m - 1) /\ (m > 1 => (n + 1) % m # n)
OBVIOUS

\* The queue lemmas speak of functions; this is what they say of the state.
LEMMA ViewFacts ==
  ASSUME TypeOK
  PROVE  /\ QueuesTyped(rdy) /\ vb \in [Buf -> VbState]
         /\ Conserved => QueuesOK(rdy)
         /\ Queued(rdy) = InReady /\ ActiveIn(vb) = Active
BY DEF TypeOK, M2mTypeOK, QueuesTyped, QueuesOK, Conserved, Queued, InReady,
       ActiveIn, Active

\* ... and of the state after the step.
LEMMA NextViewFacts ==
  /\ Queued(rdy') = InReady' /\ ActiveIn(vb') = Active'
  /\ QueuesTyped(rdy') <=> /\ rdy' \in [Queue -> Seq(Buf)]
                           /\ \A q \in Queue : rdy'[q] \in Seq(BufOf(q))
  /\ QueuesOK(rdy') <=> QueuesTyped(rdy') /\ \A q \in Queue : IsInjective(rdy'[q])
BY DEF QueuesTyped, QueuesOK, Queued, InReady, ActiveIn, Active

commandVars ==
  <<pc, stream, job, allocated, ctl, cmd, second, starts, frameNumber, idrPicId, boost,
    headed, delivered, lastIdr, failed>>

LEMMA SameCommandFacts ==
  ASSUME CommandInv, UNCHANGED commandVars
  PROVE  CommandInv'
BY DEF CommandInv, StreamInv, CountInv, HeaderInv, NumberInv, TargetInv, commandVars, InJob,
       Blocked, Startable, Fresh, StartsAt, IsHeader, IsFrame, Numbers, Raised, Done

LEMMA SameM2mFacts ==
  ASSUME M2mTypeOK, UNCHANGED m2mVars
  PROVE  M2mTypeOK'
BY DEF M2mTypeOK, m2mVars

LEMMA KeepFacts ==
  ASSUME TypeOK', CommandInv', pc' # "oops", ~raced' => JobInv' /\ Conserved'
  PROVE  IInv'
BY DEF IInv, NoCrash

LEMMA InitInv == Init => IInv
<1> SUFFICES ASSUME Init
             PROVE  IInv
  OBVIOUS
<1> USE BufAssumption, EncoderAssumption
<1>1. << >> \in Seq(Buf) /\ << >> \in Seq(SrcBuf) /\ << >> \in Seq(DstBuf)
  BY EmptyFacts
<1>2. M2mTypeOK
  BY <1>1 DEF Init, M2mInit, M2mTypeOK, VbState, Queue, BufOf
<1>3. TypeOK
  <2>1. ctl.gop \in Nat \ {0} /\ IdMod \in Nat /\ IdMod > 1
    BY DEF Init, EncoderAssumption, ControlValue
  <2>2. /\ frameNumber \in 0 .. ctl.gop /\ idrPicId \in 0 .. (IdMod - 1)
        /\ starts \in 0 .. 3 /\ boost \in 0 .. 2 /\ lastIdr \in 0 .. IdMod
    BY <2>1 DEF Init
  <2>3. pc \in Pc /\ cmd \in Cmd /\ ctl \in Controls /\ key \in SUBSET SrcBuf
    BY DEF Init, Pc, Cmd
  <2>4. QED
    BY <1>2, <2>2, <2>3, Zenon DEF Init, TypeOK
<1>4. CommandInv
  BY DEF Init, M2mInit, CommandInv, StreamInv, CountInv, HeaderInv, NumberInv, TargetInv, InJob,
         Blocked, Fresh, Startable, Queue, Other, Raised, Done
<1>5. JobInv /\ NoCrash
  BY DEF Init, M2mInit, JobInv, InJob, Done, NoCrash
<1>6. Conserved
  <2>1. Active = {} /\ Taken = {} /\ dropped = {}
    BY DEF Init, M2mInit, Active, InTask, Taken
  <2>2. InReady = {} /\ \A q \in Queue : IsInjective(rdy[q])
    BY EmptyFacts DEF Init, M2mInit, InReady, Queue
  <2>3. QED
    BY <2>1, <2>2 DEF Conserved
<1>7. QED
  BY <1>3, <1>4, <1>5, <1>6 DEF IInv

-----------------------------------------------------------------------------
(* Steps that move no buffer.                                              *)

\* A step that moves no buffer and does not change what is taken conserves
\* buffers.
LEMMA NoMoveFacts ==
  ASSUME UNCHANGED <<vb, rdy, dropped>>, Taken' = Taken
  PROVE  Conserved => Conserved'
BY DEF Conserved, Active, InReady

\* What is taken depends on the stage of the job.
LEMMA TakenFacts ==
  /\ pc = "take" /\ ~overtaken => Taken = InTask \ {dstBuf}
  /\ pc \in {"configure", "wait", "finish", "return", "abort"} /\ ~overtaken => Taken = InTask
  /\ pc = "idle" => Taken \subseteq InTask
  /\ pc = "ended" => Taken \subseteq {srcBuf} \ {NoBuf}
BY DEF Taken, InTask

\* The hardware is configured for a command.
LEMMA ConfigureStep ==
  ASSUME IInv, Configure
  PROVE  IInv'
<1>1. /\ pc = "configure" /\ pc' = "wait" /\ allocated /\ hw' = "running"
      /\ starts' = IF starts < 3 THEN starts + 1 ELSE starts
      /\ boost' = IF Boosts /\ boost < 2 THEN boost + 1 ELSE boost
      /\ UNCHANGED <<m2mVars, allocated, taskVars, frameNumber, idrPicId, ctrlVars, history>>
  BY DEF Configure, FramePrepare
<1>2. TypeOK'
  BY <1>1, SameM2mFacts DEF IInv, TypeOK, Pc, taskVars, ctrlVars, history, races
<1>3. InJob /\ InJob' /\ ~Startable' /\ Blocked' = Blocked /\ Fresh' = Fresh
  BY <1>1 DEF InJob, Startable, Blocked, Fresh, m2mVars
<1>4. StreamInv' /\ CountInv' /\ HeaderInv' /\ NumberInv'
  <2>1. ~Fresh
    BY <1>1, <1>3 DEF IInv, CommandInv, StreamInv, Fresh, Queue, Other
  <2>2. StreamInv'
    BY <1>1, <1>3, <2>1 DEF IInv, CommandInv, StreamInv, m2mVars
  <2>3. CountInv'
    BY <1>1, <1>3 DEF IInv, CommandInv, CountInv, TypeOK, Cmd, StartsAt, taskVars, ctrlVars, history, IsHeader, Done
  <2>4. HeaderInv' /\ NumberInv'
    BY <1>1, <1>3 DEF IInv, CommandInv, HeaderInv, NumberInv, taskVars, ctrlVars, history,
                      IsHeader, IsFrame, Numbers, Done
  <2>5. QED
    BY <2>2, <2>3, <2>4
<1>5. TargetInv'
  BY <1>1, <1>3 DEF IInv, TypeOK, CommandInv, TargetInv, Raised, Boosts, taskVars, ctrlVars, history
<1>6. ASSUME ~raced' PROVE JobInv' /\ Conserved'
  <2>1. JobInv /\ Conserved
    BY <1>1, <1>6 DEF IInv, history, races
  <2>2. JobInv'
    BY <1>1, <1>3, <2>1 DEF JobInv, Done, taskVars, ctrlVars, history, races, m2mVars, drainVars,
                            IsHeader, Ready
  <2>3. Taken' = Taken
    BY <1>1 DEF Taken, InTask, taskVars, history, races, m2mVars
  <2>4. QED
    BY <1>1, <2>1, <2>2, <2>3, NoMoveFacts DEF m2mVars
<1>7. QED
  BY <1>1, <1>2, <1>4, <1>5, <1>6, KeepFacts DEF CommandInv

\* The second pass of an IDR frame, and the next part of a job.
LEMMA NextCommandSteps ==
  ASSUME IInv, SecondPass \/ NextPart
  PROVE  IInv'
<1>1. /\ pc = "wait" /\ pc' = "configure" /\ allocated /\ hw' = "idle"
      /\ \/ cmd = "idr" /\ ctl.rc /\ second' = TRUE /\ UNCHANGED <<cmd, headed>>
         \/ cmd = "sequence" /\ cmd' = "picture" /\ UNCHANGED <<headed, second>>
         \/ cmd = "picture" /\ ctl.join /\ cmd' = "idr" /\ headed' = TRUE /\ UNCHANGED second
      /\ UNCHANGED <<m2mVars, allocated, srcBuf, dstBuf, isLast, countVars, ctrlVars, boost,
                     delivered, lastIdr, failed, races>>
  BY DEF SecondPass, NextPart, Woken, NeedsSecond, history
<1>2. TypeOK'
  <2>1. M2mTypeOK'
    BY <1>1, SameM2mFacts DEF IInv, TypeOK
  <2>2. pc' \in Pc /\ cmd' \in Cmd /\ headed' \in BOOLEAN /\ second' \in BOOLEAN
    BY <1>1 DEF IInv, TypeOK, Pc, Cmd
  <2>3. QED
    BY <1>1, <2>1, <2>2 DEF IInv, TypeOK, countVars, ctrlVars, races
<1>3. InJob /\ InJob' /\ ~Startable' /\ Blocked' = Blocked /\ ~Fresh /\ ~Fresh'
  BY <1>1 DEF InJob, Startable, Blocked, Fresh, m2mVars, IInv, CommandInv, StreamInv, Queue, Other
<1>4. StreamInv' /\ CountInv' /\ HeaderInv' /\ NumberInv'
  <2>1. StreamInv'
    BY <1>1, <1>3 DEF IInv, CommandInv, StreamInv, m2mVars
  <2>2. CountInv'
    BY <1>1, <1>3 DEF IInv, CommandInv, CountInv, TypeOK, Cmd, StartsAt, countVars, ctrlVars, IsHeader, Done
  <2>3. HeaderInv' /\ NumberInv'
    BY <1>1, <1>3 DEF IInv, CommandInv, HeaderInv, NumberInv, countVars, ctrlVars,
                      IsHeader, IsFrame, Numbers, Done
  <2>4. QED
    BY <2>1, <2>2, <2>3
<1>5. TargetInv'
  BY <1>1, <1>3 DEF IInv, TypeOK, CommandInv, TargetInv, Raised, countVars, ctrlVars
<1>6. ASSUME ~raced' PROVE JobInv' /\ Conserved'
  <2>1. JobInv /\ Conserved
    BY <1>1, <1>6 DEF IInv, races
  <2>2. JobInv'
    BY <1>1, <1>3, <2>1 DEF JobInv, Done, ctrlVars, races, m2mVars, drainVars, IsHeader, Ready
  <2>3. Taken' = Taken
    BY <1>1 DEF Taken, InTask, races, m2mVars
  <2>4. QED
    BY <1>1, <2>1, <2>2, <2>3, NoMoveFacts DEF m2mVars
<1>7. QED
  BY <1>1, <1>2, <1>4, <1>5, <1>6, KeepFacts DEF CommandInv

\* The interrupt, ENCODER_CMD START and the control for a key frame change
\* nothing the invariant speaks of.
LEMMA QuietSteps ==
  ASSUME IInv, pc # "oops",
         \/ Isr \/ ForceKeyFrame
         \/ CmdStart /\ UNCHANGED races /\
              UNCHANGED <<pc, allocated, taskVars, hw, countVars, ctrlVars, boost, headed,
                          delivered, lastIdr, failed>>
  PROVE  IInv'
<1>1. /\ UNCHANGED commandVars
      /\ UNCHANGED <<vb, rdy, aborted, dropped, isDraining, taskVars, key, races>>
      /\ hasStopped' \in {hasStopped, FALSE} /\ hw' \in {hw, "done"} /\ isNextIdr' \in {isNextIdr, TRUE}
  BY DEF Isr, ForceKeyFrame, CmdStart, commandVars, m2mVars, drainVars, taskVars, countVars,
         ctrlVars, history
<1>2. TypeOK'
  <2>1. hasStopped' \in BOOLEAN /\ isNextIdr' \in BOOLEAN /\ hw' \in {"idle", "running", "done"}
    BY <1>1 DEF IInv, TypeOK, M2mTypeOK
  <2>2. M2mTypeOK'
    BY <1>1, <2>1 DEF IInv, TypeOK, M2mTypeOK, commandVars
  <2>3. QED
    BY <1>1, <2>1, <2>2 DEF IInv, TypeOK, commandVars, taskVars, races
<1>3. CommandInv'
  BY <1>1, SameCommandFacts DEF IInv
<1>4. ASSUME ~raced' PROVE JobInv' /\ Conserved'
  <2>1. Taken' = Taken
    BY <1>1 DEF InTask, Taken, commandVars, taskVars, races
  <2>2. ~hasStopped => ~hasStopped'
    BY <1>1
  <2>3. JobInv'
    BY <1>1, <1>4, <2>2 DEF IInv, JobInv, InJob, InTask, Done, commandVars, taskVars, races,
                            IsHeader, Ready
  <2>4. QED
    BY <1>1, <1>4, <2>1, <2>3, NoMoveFacts DEF IInv, races
<1>5. QED
  BY <1>1, <1>2, <1>3, <1>4, KeepFacts DEF commandVars

\* The thread finds its context freed only after a race with STOP, or once STREAMOFF
\* has finished its job.
LEMMA FreedStep ==
  ASSUME IInv, UseAfterFree
  PROVE  IInv'
<1>1. /\ InJob /\ ~InJob' /\ ~Startable' /\ pc' = "oops" /\ ~allocated
      /\ UNCHANGED <<m2mVars, allocated, taskVars, hw, countVars, ctrlVars, boost, history>>
  BY DEF UseAfterFree, InJob, Startable
<1>2. TypeOK'
  BY <1>1, SameM2mFacts DEF IInv, TypeOK, Pc, taskVars, countVars, ctrlVars, history, races
<1>3. CommandInv'
  BY <1>1 DEF IInv, CommandInv, StreamInv, CountInv, HeaderInv, NumberInv, TargetInv, Fresh,
              Raised, Done, m2mVars, taskVars, countVars, ctrlVars, history
<1>4. raced \/ overtaken
  BY <1>1 DEF IInv, JobInv, CommandInv, StreamInv, InJob, Queue
<1>5. QED
  BY <1>1, <1>2, <1>3, <1>4 DEF IInv, NoCrash, history, races

\* STREAMOFF begins; formats and buffers are set up anew.
LEMMA ControlSteps ==
  ASSUME IInv, pc # "oops", (\E q \in Queue : StreamOff(q)) \/ Reconfigure
  PROVE  IInv'
<1>1. UNCHANGED <<vb, rdy, drainVars, dropped, pc, allocated, taskVars, hw, countVars,
                  ctrlVars, boost, headed, delivered, lastIdr, failed, raced>>
  BY DEF StreamOff, Reconfigure, history, races
<1>2. TypeOK'
  <2>1. M2mTypeOK'
    BY <1>1 DEF IInv, TypeOK, M2mTypeOK, drainVars, StreamOff, Reconfigure
  <2>2. QED
    <3>1. overtaken' \in BOOLEAN
      BY DEF StreamOff, Reconfigure, history, races, IInv, TypeOK
    <3>2. QED
      BY <1>1, <2>1, <3>1 DEF IInv, TypeOK, taskVars, countVars, ctrlVars
<1> DEFINE Effect ==
      /\ ~Fresh' /\ (job' = "running" => job = "running") /\ Blocked'
      /\ \A q \in Queue : stream'[q] \in {"on", "cancel"} => stream[q] \in {"on", "cancel"}
      /\ \A q \in Queue : InJob /\ stream[q] # "idle" => stream'[q] # "idle"
      /\ job' = "running" =>
           \A q \in Queue : stream[q] \in {"on", "cancel"} => stream'[q] \in {"on", "cancel"}
<1>3. Effect
  <2>1. CASE Reconfigure
    <3>1. /\ pc = "idle" /\ job' = job
          /\ \A q \in Queue : stream'[q] = "idle" /\ stream[q] \in {"idle", "off"}
      BY <2>1 DEF Reconfigure
    <3>2. QED
      BY <3>1 DEF Fresh, Blocked, InJob, Queue, Other
  <2>2. ASSUME NEW r \in Queue, StreamOff(r)
        PROVE  Effect
    <3>1. /\ stream'[r] = "cancel" /\ stream[r] = "on" /\ job' \in {job, "none"}
          /\ \A q \in Queue : q # r => stream'[q] = stream[q]
      BY <2>2 DEF StreamOff, IInv, TypeOK, M2mTypeOK
    <3>2. QED
      BY <3>1 DEF Fresh, Blocked, Queue, Other
  <2>3. QED
    BY <2>1, <2>2
<1>4. InJob' = InJob /\ ~Startable' /\ (InJob => Blocked)
  BY <1>1, <1>3 DEF InJob, Startable, IInv, CommandInv, StreamInv
<1>5. CommandInv'
  <2>1. StreamInv'
    BY <1>1, <1>3, <1>4 DEF IInv, CommandInv, StreamInv
  <2>2. CountInv' /\ HeaderInv' /\ NumberInv' /\ TargetInv'
    BY <1>1, <1>4 DEF IInv, CommandInv, CountInv, HeaderInv, NumberInv, TargetInv, taskVars,
                      countVars, ctrlVars, StartsAt, IsHeader, IsFrame, Numbers, Raised, Done
  <2>3. QED
    BY <2>1, <2>2 DEF CommandInv
<1>6. ASSUME ~raced' PROVE JobInv' /\ Conserved'
  <2>1. JobInv /\ Conserved
    BY <1>1, <1>6 DEF IInv
  <2>2. /\ InJob => job' = job \/ overtaken'
        /\ overtaken' => pc \in {"ended", "abort"} /\ job' = "none"
        /\ overtaken => overtaken'
        /\ overtaken' # overtaken => ~overtaken /\ pc \in {"ended", "abort"}
    <3>1. CASE Reconfigure
      BY <2>1, <3>1 DEF JobInv, Reconfigure, history, races, InJob
    <3>2. ASSUME NEW r \in Queue, StreamOff(r)
          PROVE  /\ InJob => job' = job \/ overtaken'
                 /\ overtaken' => pc \in {"ended", "abort"} /\ job' = "none"
                 /\ overtaken => overtaken'
                 /\ overtaken' # overtaken => ~overtaken /\ pc \in {"ended", "abort"}
      <4>1. /\ job' = IF hasStopped THEN "none" ELSE job
            /\ overtaken' = (overtaken \/ (hasStopped /\ pc \in {"ended", "abort"}))
        BY <3>2 DEF StreamOff, AbortFinishes
      <4>2. pc \in Pc /\ overtaken \in BOOLEAN
        BY DEF IInv, TypeOK
      <4>3. QED
        BY <2>1, <4>1, <4>2 DEF JobInv, InJob, Pc
    <3>3. QED
      BY <3>1, <3>2
  <2>3. \A b \in Buf : pc # "idle" /\ stream[QueueOf(b)] = "off" => stream'[QueueOf(b)] = "off"
    <3>1. \A b \in Buf : QueueOf(b) \in Queue
      BY DEF QueueOf, Queue
    <3>2. \A q \in Queue : pc # "idle" /\ stream[q] = "off" => stream'[q] = "off"
      BY DEF StreamOff, Reconfigure, IInv, TypeOK, M2mTypeOK
    <3>3. QED
      BY <3>1, <3>2
  <2>4. JobInv'
    <3>1. InTask' = InTask /\ InTask \subseteq Buf
      BY <1>1 DEF InTask, taskVars, IInv, TypeOK, Buf
    <3>2. (pc = "abort" => \A b \in InTask : vb[b] = "active" \/ stream[QueueOf(b)] = "off")'
      BY <1>1, <2>1, <2>3, <3>1 DEF JobInv
    <3>3. QED
      BY <1>1, <1>4, <2>1, <2>2, <3>2 DEF JobInv, Done, taskVars, ctrlVars, drainVars, IsHeader, Ready
  <2>5. Taken' = Taken
    <3>1. \A b \in Taken : vb[b] = "active"
      BY <1>6, <2>1 DEF Conserved, Active
    <3>2. InTask' = InTask
      BY <1>1 DEF InTask, taskVars
    <3>3. QED
      BY <1>1, <2>2, <3>1, <3>2 DEF Taken, taskVars
  <2>6. QED
    BY <1>1, <2>1, <2>4, <2>5, NoMoveFacts
<1>7. QED
  BY <1>1, <1>2, <1>5, <1>6, KeepFacts

-----------------------------------------------------------------------------
(* The beginning of a job.                                                 *)

\* What encoder_start encodes first: a header until there was one, and a frame
\* inside its group.
LEMMA StartCmdFacts ==
  ASSUME TypeOK, CountInv, Startable, NEW src
  PROVE  /\ StartCmd(src) \in {"sequence", "idr", "nonidr"}
         /\ starts \in {0, 2, 3}
         /\ StartCmd(src) = "sequence" => starts = 0 \/ (starts = 3 /\ ctl.repeat)
         /\ StartCmd(src) = "idr" => starts \in {2, 3} /\ (starts = 3 => ~ctl.repeat)
         /\ StartCmd(src) = "nonidr" =>
              starts = 3 /\ frameNumber \in 1 .. (ctl.gop - 1) /\ src \notin key
<1>1. ctl.gop \in Nat \ {0} /\ starts \in 0 .. 3 /\ frameNumber \in 0 .. ctl.gop
  BY EncoderAssumption DEF EncoderAssumption, ControlValue, TypeOK
<1>2. 0 % ctl.gop = 0 /\ ctl.gop % ctl.gop = 0
  BY <1>1, ModFacts
<1>3. ASSUME ~IsIdr(src)
      PROVE  frameNumber \in 1 .. (ctl.gop - 1) /\ src \notin key
  <2>1. frameNumber # 0 /\ frameNumber # ctl.gop /\ src \notin key
    BY <1>2, <1>3 DEF IsIdr
  <2>2. QED
    BY <1>1, <2>1
<1>4. starts \in {0, 2, 3} /\ (starts # 3 => frameNumber = 0)
  BY <1>1 DEF CountInv
<1>5. QED
  BY <1>1, <1>3, <1>4 DEF StartCmd

LEMMA StartStep ==
  ASSUME IInv, EncoderStart
  PROVE  IInv'
<1> USE BufAssumption
<1> DEFINE s == Head(rdy["src"])
           d == Head(rdy["dst"])
           c == StartCmd(s)
           r == [rdy EXCEPT !["src"] = Tail(@)]
<1>1. /\ QueuesTyped(rdy) /\ rdy["src"] # << >> /\ rdy["dst"] # << >>
      /\ "src" \in Queue /\ "dst" \in Queue /\ BufOf("src") = SrcBuf /\ BufOf("dst") = DstBuf
  BY ViewFacts DEF IInv, EncoderStart, JobReady, Ready, Queue, BufOf
<1>2. s \in SrcBuf /\ d \in DstBuf /\ QueuesTyped(r) /\ s # NoBuf /\ d # NoBuf
  BY <1>1, TypedFacts DEF BufAssumption
<1>3. /\ pc = "idle" /\ pc' = "take" /\ job = "none" /\ job' = "running" /\ ~hasStopped
      /\ \A q \in Queue : stream[q] = "on"
      /\ cmd' = c /\ dstBuf' = d /\ second' = FALSE
      /\ IF TakesSrc(c) THEN srcBuf' = s /\ rdy' = r ELSE srcBuf' = NoBuf /\ rdy' = rdy
      /\ IF NewIdr(c) THEN idrPicId' = (idrPicId + 1) % IdMod /\ frameNumber' = 0
                      ELSE UNCHANGED <<idrPicId, frameNumber>>
      /\ UNCHANGED <<vb, stream, drainVars, aborted, dropped, allocated, isLast, hw,
                     starts, ctrlVars, boost, history>>
  BY <1>1 DEF EncoderStart, JobReady, Removed, AfterRemove, Ready, Queue
<1>4. Startable /\ InJob' /\ ~Startable' /\ Blocked' /\ ~Fresh'
  BY <1>3 DEF Startable, InJob, Blocked, Fresh, Queue, Other
<1> HIDE DEF c
<1>5. /\ c \in {"sequence", "idr", "nonidr"} /\ starts \in {0, 2, 3}
      /\ c = "sequence" => starts = 0 \/ (starts = 3 /\ ctl.repeat)
      /\ c = "idr" => starts \in {2, 3} /\ (starts = 3 => ~ctl.repeat)
      /\ c = "nonidr" => starts = 3 /\ frameNumber \in 1 .. (ctl.gop - 1) /\ s \notin key
  BY <1>4, StartCmdFacts DEF IInv, CommandInv, c
<1>6. /\ idrPicId \in 0 .. (IdMod - 1) /\ lastIdr \in 0 .. IdMod /\ IdMod \in Nat \ {0}
      /\ (idrPicId + 1) % IdMod \in 0 .. (IdMod - 1) /\ (idrPicId + 1) % IdMod # idrPicId
      /\ ctl.gop \in Nat \ {0}
  <2>1. /\ idrPicId \in 0 .. (IdMod - 1) /\ lastIdr \in 0 .. IdMod
        /\ IdMod \in Nat \ {0} /\ IdMod > 1 /\ ctl.gop \in Nat \ {0}
    BY EncoderAssumption DEF EncoderAssumption, ControlValue, IInv, TypeOK
  <2>2. QED
    BY <2>1, ModFacts
<1>7. TypeOK'
  <2>1. QueuesTyped(rdy')
    BY <1>1, <1>2, <1>3
  <2>2. M2mTypeOK'
    BY <1>3, <2>1, NextViewFacts DEF IInv, TypeOK, M2mTypeOK, drainVars
  <2>3. srcBuf' \in SrcBuf \cup {NoBuf} /\ dstBuf' \in DstBuf \cup {NoBuf} /\ pc' \in Pc
        /\ cmd' \in Cmd /\ second' \in BOOLEAN
    BY <1>2, <1>3, <1>5 DEF Pc, Cmd
  <2>4. frameNumber' \in 0 .. ctl.gop /\ idrPicId' \in 0 .. (IdMod - 1)
    BY <1>3, <1>6 DEF IInv, TypeOK
  <2>5. QED
    BY <1>3, <2>2, <2>3, <2>4 DEF IInv, TypeOK, ctrlVars, history, races
<1>8. CommandInv'
  <2>1. StreamInv'
    BY <1>3, <1>4 DEF IInv, CommandInv, StreamInv
  <2>2. CountInv'
    BY <1>3, <1>4, <1>5 DEF IInv, CommandInv, CountInv, StartsAt, IsHeader, NewIdr, Done, ctrlVars, history
  <2>3. HeaderInv'
    BY <1>3, <1>4, <1>5, <1>6 DEF IInv, CommandInv, HeaderInv, IsFrame, Done, history
  <2>4. NumberInv'
    BY <1>3, <1>4, <1>5, <1>6 DEF IInv, CommandInv, CountInv, NumberInv, IsHeader, NewIdr,
                                  Numbers, ctrlVars, history
  <2>5. TargetInv'
    BY <1>3, <1>4 DEF IInv, CommandInv, TargetInv, Raised, ctrlVars, history
  <2>6. QED
    BY <2>1, <2>2, <2>3, <2>4, <2>5 DEF CommandInv
<1>9. ASSUME ~raced' PROVE JobInv' /\ Conserved'
  <2>1. JobInv /\ Conserved /\ srcBuf = NoBuf /\ dstBuf = NoBuf /\ ~overtaken /\ ~overtaken'
    BY <1>3, <1>9 DEF IInv, JobInv, history, races
  <2>2. rdy'["dst"] = rdy["dst"]
    BY <1>1, <1>3 DEF QueuesTyped
  <2>3. JobInv'
    BY <1>1, <1>2, <1>3, <1>4, <1>5, <2>1, <2>2 DEF JobInv, Done, TakesSrc, IsHeader, Ready, drainVars, ctrlVars
  <2>4. Taken = {} /\ Taken' = {srcBuf'} \ {NoBuf}
    <3>1. srcBuf' # d
      BY <1>2, <1>3 DEF BufAssumption
    <3>2. QED
      BY <1>2, <1>3, <2>1, <3>1, TakenFacts DEF Taken, InTask
  <2>5. QueuesOK(rdy) /\ Queued(rdy) = InReady
    BY <2>1, ViewFacts DEF IInv
  <2>6. QueuesOK(r) /\ Queued(r) = InReady \ {s} /\ s \in InReady
    BY <1>1, <2>5, TakeFacts
  <2>7. QueuesOK(rdy') /\ InReady' = InReady \ Taken' /\ Taken' \subseteq InReady
    BY <1>2, <1>3, <2>4, <2>5, <2>6, NextViewFacts
  <2>8. Active' = Active /\ dropped' = dropped
    BY <1>3 DEF Active
  <2>9. Conserved'
    BY <2>1, <2>4, <2>7, <2>8, NextViewFacts DEF Conserved
  <2>10. QED
    BY <2>3, <2>9
<1>10. QED
  BY <1>3, <1>7, <1>8, <1>9, KeepFacts

\* The destination buffer leaves its list, unless STOP has taken it.
LEMMA TakeStep ==
  ASSUME IInv, TakeDst
  PROVE  IInv'
<1> USE BufAssumption
<1> DEFINE r     == [rdy EXCEPT !["dst"] = Tail(@)]
           there == Ready("dst") /\ Removed("dst") = dstBuf
<1>1. /\ pc = "take" /\ allocated
      /\ there => pc' = "configure" /\ rdy' = r
      /\ ~there => pc' = "oops" /\ rdy' = rdy
      /\ UNCHANGED <<vb, stream, job, drainVars, aborted, dropped, allocated, taskVars, hw,
                     countVars, ctrlVars, boost, history>>
  BY DEF TakeDst, AfterRemove, Ready
<1>2. QueuesTyped(rdy) /\ "dst" \in Queue
  BY ViewFacts DEF IInv, Queue
<1>3. TypeOK'
  <2>1. QueuesTyped(rdy') /\ pc' \in Pc
    BY <1>1, <1>2, TypedFacts DEF Ready, Pc
  <2>2. M2mTypeOK'
    BY <1>1, <2>1, NextViewFacts DEF IInv, TypeOK, M2mTypeOK, drainVars
  <2>3. QED
    BY <1>1, <2>1, <2>2 DEF IInv, TypeOK, taskVars, countVars, ctrlVars, history, races
<1>4. InJob /\ InJob' = there /\ ~Startable' /\ Blocked' = Blocked /\ Fresh' = Fresh /\ ~Fresh
  BY <1>1 DEF InJob, Startable, Blocked, Fresh, IInv, CommandInv, StreamInv, Queue, Other
<1>5. CommandInv'
  <2>1. StreamInv'
    BY <1>1, <1>4 DEF IInv, CommandInv, StreamInv
  <2>2. CountInv' /\ HeaderInv' /\ NumberInv' /\ TargetInv'
    BY <1>1, <1>4 DEF IInv, CommandInv, CountInv, HeaderInv, NumberInv, TargetInv, taskVars,
                      countVars, ctrlVars, history, StartsAt, IsHeader, IsFrame, Numbers, Raised, Done
  <2>3. QED
    BY <2>1, <2>2 DEF CommandInv
<1>6. ASSUME ~raced' PROVE pc' # "oops" /\ JobInv' /\ Conserved'
  <2>1. JobInv /\ Conserved /\ ~overtaken /\ ~overtaken'
    BY <1>1, <1>6 DEF IInv, JobInv, history, races
  <2>2. rdy["dst"] # << >> /\ Head(rdy["dst"]) = dstBuf /\ there /\ dstBuf # NoBuf
    BY <1>1, <1>4, <2>1 DEF JobInv, Ready, Removed
  <2>3. QueuesOK(rdy) /\ Queued(rdy) = InReady
    BY <2>1, ViewFacts DEF IInv
  <2>4. QueuesOK(rdy') /\ InReady' = InReady \ {dstBuf} /\ dstBuf \in InReady
    <3>1. /\ QueuesOK(r) /\ Queued(r) = Queued(rdy) \ {Head(rdy["dst"])}
          /\ Head(rdy["dst"]) \in Queued(rdy)
      BY <1>2, <2>2, <2>3, TakeFacts
    <3>2. QED
      BY <1>1, <2>2, <2>3, <3>1, NextViewFacts
  <2>5. Taken' = Taken \cup {dstBuf}
    BY <1>1, <2>1, <2>2, TakenFacts DEF Taken, InTask, taskVars
  <2>6. JobInv'
    BY <1>1, <1>4, <2>1, <2>2 DEF JobInv, Done, IsHeader, taskVars, drainVars, ctrlVars
  <2>7. Active' = Active /\ dropped' = dropped
    BY <1>1 DEF Active
  <2>8. Conserved'
    BY <2>1, <2>4, <2>5, <2>7, NextViewFacts DEF Conserved
  <2>9. QED
    BY <1>1, <2>2, <2>6, <2>8
<1>7. QED
  BY <1>3, <1>5, <1>6 DEF IInv, NoCrash

-----------------------------------------------------------------------------
(* The end of a job.                                                       *)

\* What a step that gives back buffers of the task does to the conservation.
LEMMA GiveFacts ==
  ASSUME Conserved, NEW B, B \subseteq Taken, Active' = Active \ B, Taken' = Taken \ B,
         UNCHANGED <<rdy, dropped>>
  PROVE  Conserved'
BY DEF Conserved, InReady

\* Giving back two buffers.
LEMMA GiveBothFacts ==
  ASSUME TypeOK, vb' = BufDone(BufDone(vb, srcBuf, "error"), dstBuf, "error")
  PROVE  vb' \in [Buf -> VbState] /\ Active' = Active \ {srcBuf, dstBuf}
<1> USE BufAssumption
<1> DEFINE f == BufDone(vb, srcBuf, "error")
<1>1. srcBuf \in Buf \cup {NoBuf} /\ dstBuf \in Buf \cup {NoBuf} /\ "error" \in VbState
  BY DEF TypeOK, Buf, VbState
<1>2. vb \in [Buf -> VbState] /\ ActiveIn(vb) = Active
  BY ViewFacts
<1>3. f \in [Buf -> VbState] /\ ActiveIn(f) = Active \ {srcBuf}
  BY <1>1, <1>2, BufDoneFacts
<1>4. vb' \in [Buf -> VbState] /\ Active' = ActiveIn(f) \ {dstBuf}
  BY <1>1, <1>3, BufDoneFacts, NextViewFacts
<1>5. QED
  BY <1>3, <1>4

\* A configuration that fails: both buffers go back and the job is over.
LEMMA FailStep ==
  ASSUME IInv, ConfigureFails
  PROVE  IInv'
<1> USE BufAssumption
<1>1. /\ pc = "configure" /\ pc' = "idle" /\ allocated /\ IsFrame(cmd)
      /\ vb' = BufDone(BufDone(vb, srcBuf, "error"), dstBuf, "error")
      /\ srcBuf' = NoBuf /\ dstBuf' = NoBuf
      /\ hw' = "idle" /\ job' = "none"
      /\ failed' = TRUE /\ headed' = FALSE /\ lastIdr' = IdMod
      /\ boost' = IF Boosts /\ boost < 2 THEN boost + 1 ELSE boost
      /\ UNCHANGED <<rdy, stream, drainVars, aborted, dropped, allocated, cmd, second, isLast,
                     countVars, ctrlVars, delivered, races>>
  BY DEF ConfigureFails, JobFinish, FramePrepare
<1>2. vb' \in [Buf -> VbState] /\ Active' = Active \ {srcBuf, dstBuf}
  BY <1>1, GiveBothFacts DEF IInv
<1>3. TypeOK'
  <2>1. M2mTypeOK'
    BY <1>1, <1>2 DEF IInv, TypeOK, M2mTypeOK, drainVars
  <2>2. boost' \in 0 .. 2 /\ lastIdr' \in 0 .. IdMod
    BY <1>1, EncoderAssumption DEF IInv, TypeOK, EncoderAssumption
  <2>3. QED
    BY <1>1, <2>1, <2>2 DEF IInv, TypeOK, Pc, countVars, ctrlVars, races
<1>4. InJob /\ ~InJob' /\ Fresh' = Fresh /\ ~Fresh
  BY <1>1 DEF InJob, Fresh, IInv, CommandInv, StreamInv, Queue, Other
<1>5. CommandInv'
  <2>1. StreamInv'
    BY <1>1, <1>4 DEF IInv, CommandInv, StreamInv
  <2>2. CountInv'
    <3>1. cmd # "picture" /\ starts # 1
      BY <1>1, <1>4 DEF IInv, CommandInv, CountInv, StartsAt, IsFrame
    <3>2. QED
      BY <1>1, <1>4, <3>1 DEF IInv, CommandInv, CountInv, Done, countVars, ctrlVars
  <2>3. HeaderInv' /\ NumberInv'
    BY <1>1, <1>4 DEF IInv, CommandInv, HeaderInv, NumberInv, Done, countVars, ctrlVars
  <2>4. TargetInv'
    BY <1>1, <1>4 DEF IInv, TypeOK, CommandInv, TargetInv, Boosts, countVars, ctrlVars
  <2>5. QED
    BY <2>1, <2>2, <2>3, <2>4 DEF CommandInv
<1>6. ASSUME ~raced' PROVE JobInv' /\ Conserved'
  <2>1. JobInv /\ Conserved /\ ~overtaken /\ ~overtaken'
    BY <1>1, <1>6 DEF IInv, JobInv, races
  <2>2. Taken = InTask /\ Taken' = {} /\ NoBuf \notin Active
    BY <1>1, <2>1, TakenFacts DEF Taken, InTask, Active, Buf, BufAssumption
  <2>3. Active' = Active \ Taken /\ Taken' = Taken \ Taken
    BY <1>2, <2>2 DEF InTask
  <2>4. Conserved'
    BY <1>1, <2>1, <2>3, GiveFacts
  <2>5. JobInv'
    BY <1>1, <1>4, <2>1 DEF JobInv, InTask
  <2>6. QED
    BY <2>4, <2>5
<1>7. QED
  BY <1>1, <1>3, <1>5, <1>6, KeepFacts

\* A command without an answer: the context is marked stopped.
LEMMA TimeoutStep ==
  ASSUME IInv, Timeout
  PROVE  IInv'
<1>1. /\ pc = "wait" /\ pc' = "abort" /\ allocated /\ hw' = "idle"
      /\ hasStopped' = TRUE /\ isDraining' = FALSE
      /\ UNCHANGED <<vb, rdy, stream, job, aborted, dropped, allocated, taskVars, countVars,
                     ctrlVars, boost, history>>
  BY DEF Timeout, MarkStopped
<1>2. TypeOK'
  <2>1. M2mTypeOK'
    BY <1>1 DEF IInv, TypeOK, M2mTypeOK
  <2>2. QED
    BY <1>1, <2>1 DEF IInv, TypeOK, Pc, taskVars, countVars, ctrlVars, history, races
<1>3. InJob /\ InJob' /\ ~Startable' /\ Blocked' = Blocked /\ Fresh' = Fresh /\ ~Fresh
  BY <1>1 DEF InJob, Startable, Blocked, Fresh, IInv, CommandInv, StreamInv, Queue, Other
<1>4. CommandInv'
  <2>1. StreamInv'
    BY <1>1, <1>3 DEF IInv, CommandInv, StreamInv
  <2>2. CountInv' /\ HeaderInv' /\ NumberInv'
    BY <1>1, <1>3 DEF IInv, CommandInv, CountInv, HeaderInv, NumberInv, taskVars, countVars,
                      ctrlVars, history, StartsAt, IsHeader, IsFrame, Numbers, Done
  <2>3. TargetInv'
    BY <1>1, <1>3 DEF IInv, TypeOK, CommandInv, TargetInv, Raised, taskVars, ctrlVars, history
  <2>4. QED
    BY <2>1, <2>2, <2>3 DEF CommandInv
<1>5. ASSUME ~raced' PROVE JobInv' /\ Conserved'
  <2>1. JobInv /\ Conserved /\ ~overtaken /\ ~overtaken'
    BY <1>1, <1>5 DEF IInv, JobInv, history, races
  <2>2. InTask' = InTask /\ Taken = InTask /\ Taken' = Taken
    BY <1>1, <2>1, TakenFacts DEF Taken, InTask, taskVars
  <2>3. \A b \in InTask' : vb'[b] = "active"
    BY <1>1, <2>1, <2>2 DEF Conserved, Active
  <2>4. JobInv'
    BY <1>1, <1>3, <2>1, <2>3 DEF JobInv, Done, IsHeader, taskVars, ctrlVars
  <2>5. QED
    BY <1>1, <2>1, <2>2, <2>4, NoMoveFacts
<1>6. QED
  BY <1>1, <1>2, <1>4, <1>5, KeepFacts

\* ... and the buffers go back that vb2 has not taken back already.
LEMMA AbortStep ==
  ASSUME IInv, AbortEnds
  PROVE  IInv'
<1> USE BufAssumption
<1>1. /\ pc = "abort" /\ pc' = "idle" /\ allocated
      /\ vb' = [b \in Buf |-> IF b \in {srcBuf, dstBuf} /\ vb[b] = "active" THEN "error" ELSE vb[b]]
      /\ srcBuf' = NoBuf /\ dstBuf' = NoBuf /\ overtaken' = FALSE
      /\ UNCHANGED <<rdy, stream, job, drainVars, aborted, dropped, allocated, cmd, second,
                     isLast, hw, countVars, ctrlVars, boost, headed, delivered, lastIdr, failed,
                     raced>>
  BY DEF AbortEnds, AbortReturns
<1>2. vb' \in [Buf -> VbState] /\ Active' = Active \ {srcBuf, dstBuf}
  BY <1>1, ViewFacts DEF IInv, Active, VbState
<1>3. TypeOK'
  <2>1. M2mTypeOK'
    BY <1>1, <1>2 DEF IInv, TypeOK, M2mTypeOK, drainVars
  <2>2. QED
    BY <1>1, <2>1 DEF IInv, TypeOK, Pc, countVars, ctrlVars
<1>4. InJob /\ ~InJob' /\ Blocked' = Blocked /\ Blocked /\ ~Startable' /\ Fresh' = Fresh /\ ~Fresh
  BY <1>1 DEF InJob, Startable, Blocked, Fresh, IInv, CommandInv, StreamInv, Queue, Other
<1>5. CommandInv'
  <2>1. StreamInv'
    BY <1>1, <1>4 DEF IInv, CommandInv, StreamInv
  <2>2. CountInv' /\ HeaderInv' /\ NumberInv' /\ TargetInv'
    BY <1>1, <1>4 DEF IInv, CommandInv, CountInv, HeaderInv, NumberInv, TargetInv, Raised, Done,
                      countVars, ctrlVars
  <2>3. QED
    BY <2>1, <2>2 DEF CommandInv
<1>6. ASSUME ~raced' PROVE JobInv' /\ Conserved'
  <2>1. JobInv /\ Conserved
    BY <1>1, <1>6 DEF IInv
  <2>2. /\ Taken = Active \cap {srcBuf, dstBuf} /\ Taken' = {}
    <3>1. Taken \subseteq Active /\ NoBuf \notin Active
      BY <2>1 DEF Conserved, Active, Buf, BufAssumption
    <3>2. Active \cap {srcBuf, dstBuf} \subseteq Taken
      BY <1>1, <3>1 DEF Taken, InTask, Active
    <3>3. Taken \subseteq InTask /\ InTask' = {}
      BY <1>1 DEF Taken, InTask
    <3>4. QED
      BY <3>1, <3>2, <3>3 DEF InTask, Taken
  <2>3. Active' = Active \ Taken /\ Taken' = Taken \ Taken
    BY <1>2, <2>2
  <2>4. Conserved'
    BY <1>1, <2>1, <2>3, GiveFacts
  <2>5. JobInv'
    BY <1>1, <1>4, <2>1 DEF JobInv, InTask
  <2>6. QED
    BY <2>4, <2>5
<1>7. QED
  BY <1>1, <1>3, <1>5, <1>6, KeepFacts

\* The output of a job is complete: the source buffer goes back.
LEMMA JobDoneStep ==
  ASSUME IInv, JobDone
  PROVE  IInv'
<1> USE BufAssumption
<1>1. /\ pc = "wait" /\ pc' = "finish" /\ allocated /\ hw' = "idle"
      /\ (IsFrame(cmd) /\ ~NeedsSecond) \/ (cmd = "picture" /\ ~ctl.join)
      /\ boost' = IF IsFrame(cmd) /\ ctl.rc THEN 0 ELSE boost
      /\ vb' = IF IsFrame(cmd) THEN BufDone(vb, srcBuf, "done") ELSE vb
      /\ srcBuf' = NoBuf
      /\ headed' = (headed \/ cmd = "picture")
      /\ UNCHANGED <<rdy, stream, job, drainVars, aborted, dropped, allocated, cmd, dstBuf,
                     second, isLast, countVars, ctrlVars, delivered, lastIdr, failed, races>>
  BY DEF JobDone, Woken
<1>2. /\ vb' \in [Buf -> VbState]
      /\ Active' = IF IsFrame(cmd) THEN Active \ {srcBuf} ELSE Active
  <2>1. srcBuf \in Buf \cup {NoBuf} /\ "done" \in VbState
    BY DEF IInv, TypeOK, Buf, VbState
  <2>2. vb \in [Buf -> VbState] /\ ActiveIn(vb) = Active
    BY ViewFacts DEF IInv
  <2>3. QED
    BY <1>1, <2>1, <2>2, BufDoneFacts, NextViewFacts
<1>3. TypeOK'
  <2>1. M2mTypeOK'
    BY <1>1, <1>2 DEF IInv, TypeOK, M2mTypeOK, drainVars
  <2>2. boost' \in 0 .. 2 /\ headed' \in BOOLEAN
    BY <1>1 DEF IInv, TypeOK
  <2>3. QED
    BY <1>1, <2>1, <2>2 DEF IInv, TypeOK, Pc, countVars, ctrlVars, races
<1>4. InJob /\ InJob' /\ ~Startable' /\ Blocked' = Blocked /\ Fresh' = Fresh /\ ~Fresh
  BY <1>1 DEF InJob, Startable, Blocked, Fresh, IInv, CommandInv, StreamInv, Queue, Other
<1>5. CommandInv'
  <2>1. StreamInv'
    BY <1>1, <1>4 DEF IInv, CommandInv, StreamInv
  <2>2. CountInv'
    BY <1>1, <1>4 DEF IInv, CommandInv, CountInv, StartsAt, IsHeader, Done, countVars, ctrlVars
  <2>3. HeaderInv' /\ NumberInv'
    BY <1>1, <1>4 DEF IInv, CommandInv, HeaderInv, NumberInv, IsFrame, IsHeader, Numbers,
                      countVars, ctrlVars
  <2>4. TargetInv'
    BY <1>1, <1>4 DEF IInv, TypeOK, CommandInv, TargetInv, Raised, IsFrame, countVars, ctrlVars
  <2>5. QED
    BY <2>1, <2>2, <2>3, <2>4 DEF CommandInv
<1>6. ASSUME ~raced' PROVE JobInv' /\ Conserved'
  <2>1. JobInv /\ Conserved /\ ~overtaken /\ ~overtaken'
    BY <1>1, <1>6 DEF IInv, JobInv, races
  <2>2. srcBuf # dstBuf \/ srcBuf = NoBuf
    BY DEF BufAssumption, IInv, TypeOK
  <2>3. Taken' = Taken \ {srcBuf} /\ (srcBuf = NoBuf \/ srcBuf \in Taken)
    BY <1>1, <2>1, <2>2, TakenFacts DEF Taken, InTask
  <2>4. Conserved'
    <3>1. NoBuf \notin Active /\ (~IsFrame(cmd) => srcBuf = NoBuf)
      BY <1>1, <2>1 DEF Active, Buf, BufAssumption, JobInv, IsHeader
    <3>2. PICK B : B = {srcBuf} \ {NoBuf}
      OBVIOUS
    <3>3. NoBuf \notin Taken
      BY DEF Taken, InTask
    <3>4. B \subseteq Taken /\ Active' = Active \ B /\ Taken' = Taken \ B
      BY <1>2, <2>3, <3>1, <3>2, <3>3
    <3>5. QED
      BY <1>1, <2>1, <3>4, GiveFacts
  <2>5. JobInv'
    BY <1>1, <1>4, <2>1 DEF JobInv, drainVars, Done, IsHeader
  <2>6. QED
    BY <2>4, <2>5
<1>7. QED
  BY <1>1, <1>3, <1>5, <1>6, KeepFacts

\* The draining state is read.
LEMMA LastStep ==
  ASSUME IInv, LastOfDrain
  PROVE  IInv'
<1>1. /\ pc = "finish" /\ pc' = "return" /\ allocated /\ isLast' \in BOOLEAN
      /\ UNCHANGED <<m2mVars, allocated, cmd, srcBuf, dstBuf, second, hw, countVars, ctrlVars,
                     boost, history>>
  BY DEF LastOfDrain, IInv, TypeOK, M2mTypeOK
<1>2. TypeOK'
  BY <1>1, SameM2mFacts DEF IInv, TypeOK, Pc, countVars, ctrlVars, history, races
<1>3. InJob /\ InJob' /\ ~Startable' /\ Blocked' = Blocked /\ Fresh' = Fresh /\ ~Fresh
  BY <1>1 DEF InJob, Startable, Blocked, Fresh, m2mVars, IInv, CommandInv, StreamInv, Queue, Other
<1>4. CommandInv'
  <2>1. StreamInv'
    BY <1>1, <1>3 DEF IInv, CommandInv, StreamInv, m2mVars
  <2>2. CountInv' /\ HeaderInv' /\ NumberInv' /\ TargetInv'
    BY <1>1, <1>3 DEF IInv, CommandInv, CountInv, HeaderInv, NumberInv, TargetInv, countVars,
                      ctrlVars, history, StartsAt, IsHeader, IsFrame, Numbers, Raised, Done
  <2>3. QED
    BY <2>1, <2>2 DEF CommandInv
<1>5. ASSUME ~raced' PROVE JobInv' /\ Conserved'
  <2>1. JobInv /\ Conserved
    BY <1>1, <1>5 DEF IInv, history, races
  <2>2. JobInv'
    BY <1>1, <1>3, <2>1 DEF JobInv, Done, IsHeader, m2mVars, drainVars, ctrlVars, history, races
  <2>3. Taken' = Taken
    BY <1>1 DEF Taken, InTask, m2mVars, history, races
  <2>4. QED
    BY <1>1, <2>1, <2>2, <2>3, NoMoveFacts DEF m2mVars
<1>6. QED
  BY <1>1, <1>2, <1>4, <1>5, KeepFacts

\* The destination buffer goes back; the last one stops the context.
LEMMA FinishStep ==
  ASSUME IInv, Finish
  PROVE  IInv'
<1> USE BufAssumption
<1>1. /\ pc = "return" /\ pc' = "ended" /\ allocated
      /\ vb' = BufDone(vb, dstBuf, "done") /\ isLast' = FALSE
      /\ delivered' = IF ~IsFrame(cmd) THEN IF delivered = "nothing" THEN "header" ELSE delivered
                      ELSE IF delivered = "bare" \/ (delivered = "nothing" /\ ~headed)
                      THEN "bare" ELSE "frames"
      /\ lastIdr' = IF cmd = "idr" /\ ~failed THEN idrPicId ELSE lastIdr
      /\ headed' = FALSE
      /\ UNCHANGED <<rdy, stream, job, aborted, dropped, allocated, cmd, srcBuf, dstBuf, second,
                     hw, countVars, ctrlVars, boost, failed, races>>
  BY DEF Finish, Deliver
<1>2. hasStopped' \in BOOLEAN /\ isDraining' \in BOOLEAN
  BY DEF Finish, MarkStopped, drainVars, IInv, TypeOK, M2mTypeOK
<1>3. vb' \in [Buf -> VbState] /\ Active' = Active \ {dstBuf}
  <2>1. dstBuf \in Buf \cup {NoBuf} /\ "done" \in VbState
    BY DEF IInv, TypeOK, Buf, VbState
  <2>2. vb \in [Buf -> VbState] /\ ActiveIn(vb) = Active
    BY ViewFacts DEF IInv
  <2>3. QED
    BY <1>1, <2>1, <2>2, BufDoneFacts, NextViewFacts
<1>4. InJob /\ InJob' /\ ~Startable' /\ Blocked' = Blocked /\ Fresh' = Fresh /\ ~Fresh
  BY <1>1 DEF InJob, Startable, Blocked, Fresh, IInv, CommandInv, StreamInv, Queue, Other
<1>5. TypeOK'
  <2>1. M2mTypeOK'
    BY <1>1, <1>2, <1>3 DEF IInv, TypeOK, M2mTypeOK
  <2>2. lastIdr' \in 0 .. IdMod /\ delivered' \in {"nothing", "header", "frames", "bare"}
    BY <1>1, EncoderAssumption DEF IInv, TypeOK, EncoderAssumption
  <2>3. QED
    BY <1>1, <2>1, <2>2 DEF IInv, TypeOK, Pc, countVars, ctrlVars, races
<1>6. CommandInv'
  <2>1. StreamInv'
    BY <1>1, <1>4 DEF IInv, CommandInv, StreamInv
  <2>2. CountInv'
    BY <1>1, <1>4 DEF IInv, CommandInv, CountInv, StartsAt, IsFrame, IsHeader, Done, countVars,
                      ctrlVars, TypeOK
  <2>3. HeaderInv'
    BY <1>1, <1>4 DEF IInv, TypeOK, CommandInv, HeaderInv, IsFrame, countVars
  <2>4. NumberInv'
    BY <1>1, <1>4 DEF IInv, CommandInv, CountInv, NumberInv, IsFrame, IsHeader, Numbers,
                      countVars, ctrlVars
  <2>5. TargetInv'
    BY <1>1, <1>4 DEF IInv, CommandInv, TargetInv, Raised, ctrlVars
  <2>6. QED
    BY <2>1, <2>2, <2>3, <2>4, <2>5 DEF CommandInv
<1>7. ASSUME ~raced' PROVE JobInv' /\ Conserved'
  <2>1. JobInv /\ Conserved /\ ~overtaken /\ ~overtaken'
    BY <1>1, <1>7 DEF IInv, JobInv, races
  <2>2. srcBuf = NoBuf /\ dstBuf # NoBuf
    BY <1>1, <1>4, <2>1 DEF JobInv, Done
  <2>3. Taken = {dstBuf} /\ Taken' = {}
    BY <1>1, <2>1, <2>2 DEF Taken, InTask
  <2>4. Conserved'
    BY <1>1, <1>3, <2>1, <2>3, GiveFacts
  <2>5. JobInv'
    BY <1>1, <1>4, <2>1, <2>2 DEF JobInv, Done, IsHeader, ctrlVars
  <2>6. QED
    BY <2>4, <2>5
<1>8. QED
  BY <1>1, <1>5, <1>6, <1>7, KeepFacts

\* The frame is counted and the job is over.
LEMMA EndStep ==
  ASSUME IInv, EndJob
  PROVE  IInv'
<1> USE BufAssumption
<1>1. /\ pc = "ended" /\ pc' = "idle" /\ allocated /\ job' = "none"
      /\ dstBuf' = NoBuf /\ overtaken' = FALSE
      /\ frameNumber' = IF IsFrame(cmd) THEN frameNumber + 1 ELSE frameNumber
      /\ UNCHANGED <<vb, rdy, stream, drainVars, aborted, dropped, allocated, cmd, srcBuf,
                     second, isLast, hw, starts, idrPicId, ctrlVars, boost, headed, delivered,
                     lastIdr, failed, raced>>
  BY DEF EndJob, JobFinish
<1>2. /\ InJob /\ ~InJob' /\ Fresh' = Fresh /\ ~Fresh
      /\ starts \in {2, 3} \/ cmd = "sequence"
  BY <1>1 DEF InJob, Fresh, IInv, CommandInv, StreamInv, CountInv, StartsAt, TypeOK, Cmd, Queue, Other
<1>3. TypeOK'
  <2>1. M2mTypeOK'
    BY <1>1 DEF IInv, TypeOK, M2mTypeOK, drainVars
  <2>2. frameNumber' \in 0 .. ctl.gop
    <3>1. ctl.gop \in Nat \ {0}
      BY EncoderAssumption DEF EncoderAssumption, ControlValue, IInv, TypeOK
    <3>2. IsFrame(cmd) => frameNumber \in 0 .. (ctl.gop - 1)
      BY <1>2, <3>1 DEF IInv, CommandInv, CountInv, IsFrame
    <3>3. QED
      BY <1>1, <3>1, <3>2 DEF IInv, TypeOK
  <2>3. QED
    BY <1>1, <2>1, <2>2 DEF IInv, TypeOK, Pc, ctrlVars
<1>4. CommandInv'
  <2>1. StreamInv'
    BY <1>1, <1>2 DEF IInv, CommandInv, StreamInv
  <2>2. CountInv'
    BY <1>1, <1>2 DEF IInv, CommandInv, CountInv, StartsAt, IsFrame, IsHeader, Done, ctrlVars
  <2>3. HeaderInv'
    BY <1>1, <1>2 DEF IInv, TypeOK, CommandInv, HeaderInv, IsFrame, Done
  <2>4. NumberInv'
    BY <1>1, <1>2 DEF IInv, CommandInv, CountInv, NumberInv, IsFrame, IsHeader, Numbers, Done, ctrlVars
  <2>5. TargetInv'
    BY <1>1, <1>2 DEF IInv, CommandInv, TargetInv, Raised, ctrlVars
  <2>6. QED
    BY <2>1, <2>2, <2>3, <2>4, <2>5 DEF CommandInv
<1>5. ASSUME ~raced' PROVE JobInv' /\ Conserved'
  <2>1. JobInv /\ Conserved
    BY <1>1, <1>5 DEF IInv
  <2>2. srcBuf = NoBuf
    BY <1>1, <2>1 DEF JobInv, Done
  <2>3. Taken = {} /\ Taken' = Taken
    BY <1>1, <2>2 DEF Taken, InTask
  <2>4. JobInv'
    BY <1>1, <1>2, <2>1, <2>2 DEF JobInv, InTask
  <2>5. QED
    BY <1>1, <2>1, <2>3, <2>4, NoMoveFacts
<1>6. QED
  BY <1>1, <1>3, <1>4, <1>5, KeepFacts

-----------------------------------------------------------------------------
(* The ioctls.                                                             *)

LEMMA QBufStep ==
  ASSUME IInv, pc # "oops", NEW b \in Buf, UserQBuf(b)
  PROVE  IInv'
<1> USE BufAssumption
<1> DEFINE r == [rdy EXCEPT ![QueueOf(b)] = Append(@, b)]
<1>1. /\ QBuf(b)
      /\ UNCHANGED <<stream, job, drainVars, aborted>>
      /\ UNCHANGED <<pc, allocated, taskVars, hw, countVars, ctl, boost, history>>
      /\ key' \subseteq key \cup {b} /\ (key' # key \ {b} => b \in SrcBuf)
      /\ isNextIdr' \in BOOLEAN
  BY DEF UserQBuf, QBuf, QueueOf
<1>2. vb' \in [Buf -> VbState] /\ Active' = Active \cup {b} /\ b \notin Active
  BY <1>1, ViewFacts DEF QBuf, Active, VbState, IInv
<1>3. \/ rdy' = rdy /\ dropped' = dropped \cup {b}
      \/ rdy' = r /\ dropped' = dropped
  BY <1>1 DEF QBuf
<1>4. QueuesTyped(rdy') /\ QueuesTyped(rdy) /\ QueueOf(b) \in Queue /\ b \in BufOf(QueueOf(b))
  <2>1. QueuesTyped(rdy) /\ QueueOf(b) \in Queue /\ b \in BufOf(QueueOf(b))
    BY ViewFacts, BufOfFacts DEF IInv
  <2>2. QueuesTyped(r)
    BY <2>1, TypedFacts
  <2>3. QED
    BY <1>3, <2>1, <2>2
<1>5. TypeOK'
  <2>1. M2mTypeOK'
    <3>1. dropped' \subseteq Buf
      BY <1>3 DEF IInv, TypeOK, M2mTypeOK
    <3>2. QED
      BY <1>1, <1>2, <1>4, <3>1, NextViewFacts DEF IInv, TypeOK, M2mTypeOK, drainVars
  <2>2. key' \in SUBSET SrcBuf
    BY <1>1 DEF IInv, TypeOK
  <2>3. QED
    BY <1>1, <2>1, <2>2 DEF IInv, TypeOK, taskVars, countVars, history, races
<1>6. CommandInv'
  BY <1>1, SameCommandFacts DEF IInv, commandVars, taskVars, countVars, history
<1>7. ASSUME ~raced' PROVE JobInv' /\ Conserved'
  <2>1. JobInv /\ Conserved
    BY <1>1, <1>7 DEF IInv, history, races
  <2>2. b \notin InReady /\ b \notin Taken /\ b \notin dropped /\ Taken' = Taken
    <3>1. b \notin InReady /\ b \notin Taken /\ b \notin dropped
      BY <1>2, <2>1 DEF Conserved
    <3>2. /\ vb' = [vb EXCEPT ![b] = "active"] /\ vb[b] # "active" /\ stream[QueueOf(b)] = "on"
          /\ vb \in [Buf -> VbState]
      BY <1>1, ViewFacts DEF QBuf, IInv
    <3>3. \A c \in Buf : c # b => vb'[c] = vb[c]
      BY <3>2
    <3>4. overtaken => (b \in InTask => pc = "ended")
      BY <2>1, <3>2 DEF JobInv
    <3>5. pc = "ended" => srcBuf = NoBuf
      BY <2>1 DEF JobInv, Done
    <3>6. InTask' = InTask /\ InTask \subseteq Buf
      BY <1>1 DEF InTask, taskVars, IInv, TypeOK, Buf
    <3>7. ASSUME NEW c \in InTask
          PROVE  c \in Taken' <=> c \in Taken
      <4>1. CASE c # b
        BY <1>1, <3>3, <3>6, <3>7, <4>1 DEF Taken, taskVars, history, races
      <4>2. CASE c = b
        BY <1>1, <3>1, <3>2, <3>4, <3>5, <3>6, <3>7, <4>2 DEF Taken, InTask, taskVars, history, races
      <4>3. QED
        BY <4>1, <4>2
    <3>8. QED
      BY <3>1, <3>6, <3>7 DEF Taken
  <2>3. rdy["dst"] # << >> => rdy'["dst"] # << >> /\ Head(rdy'["dst"]) = Head(rdy["dst"])
    <3>1. rdy["dst"] \in Seq(Buf) /\ rdy \in [Queue -> Seq(Buf)]
      BY <1>4 DEF QueuesTyped, Queue
    <3>2. r["dst"] \in {rdy["dst"], Append(rdy["dst"], b)}
      BY <1>4, <3>1 DEF Queue
    <3>3. rdy["dst"] # << >> => /\ Append(rdy["dst"], b) # << >>
                                /\ Head(Append(rdy["dst"], b)) = Head(rdy["dst"])
      BY <3>1
    <3>4. QED
      BY <1>3, <3>2, <3>3
  <2>4. InJob' = InJob /\ (b = srcBuf => pc \notin {"take", "configure", "wait"})
    <3>1. srcBuf # NoBuf => srcBuf \in InTask /\ srcBuf # dstBuf
      BY DEF InTask, IInv, TypeOK, BufAssumption
    <3>2. b # NoBuf
      BY DEF Buf, BufAssumption
    <3>3. QED
      BY <1>1, <2>1, <2>2, <3>1, <3>2 DEF InJob, Taken, JobInv
  <2>5. JobInv'
    <3>1. InTask' = InTask /\ InTask \subseteq Buf
      BY <1>1 DEF InTask, taskVars, IInv, TypeOK, Buf
    <3>2. \A c \in Buf : vb[c] = "active" => vb'[c] = "active"
      BY <1>1, ViewFacts DEF QBuf, IInv
    <3>3. (pc = "abort" => \A c \in InTask : vb[c] = "active" \/ stream[QueueOf(c)] = "off")'
      BY <1>1, <2>1, <3>1, <3>2 DEF JobInv
    <3>4. QED
      BY <1>1, <2>1, <2>3, <2>4, <3>3 DEF JobInv, Done, Ready, IsHeader, taskVars, drainVars,
                                          history, races
  <2>6. /\ QueuesOK(rdy')
        /\ InReady' \cup dropped' = InReady \cup dropped \cup {b}
        /\ InReady' \cap dropped' = {} /\ InReady' \cap Taken = {} /\ dropped' \cap Taken = {}
    <3>1. QueuesOK(rdy) /\ Queued(rdy) = InReady
      BY <2>1, ViewFacts DEF IInv
    <3>2. QueuesOK(r) /\ Queued(r) = InReady \cup {b}
      BY <2>2, <3>1, PutFacts
    <3>3. QED
      BY <1>3, <2>1, <2>2, <3>1, <3>2, NextViewFacts DEF Conserved
  <2>7. Conserved'
    BY <1>2, <2>1, <2>2, <2>6, NextViewFacts DEF Conserved
  <2>8. QED
    BY <2>5, <2>7
<1>8. QED
  BY <1>1, <1>5, <1>6, <1>7, KeepFacts

\* ENCODER_CMD STOP: at most one ready CAPTURE buffer goes back to vb2, and
\* none while a job runs unless that is a race.
LEMMA CmdStopStep ==
  ASSUME IInv, pc # "oops", CmdStop, raced' = (raced \/ (HasBuffer /\ ~Ready("src") /\ Ready("dst"))),
         UNCHANGED <<pc, allocated, taskVars, hw, countVars, ctrlVars, boost, headed,
                     delivered, lastIdr, failed, overtaken>>
  PROVE  IInv'
<1> USE BufAssumption
<1> DEFINE d    == Head(rdy["dst"])
           r    == [rdy EXCEPT !["dst"] = Tail(@)]
           Took == /\ rdy["dst"] # << >> /\ ~Ready("src")
                   /\ vb' = BufDone(vb, d, "done") /\ rdy' = r
<1>1. UNCHANGED <<stream, job, aborted, dropped>>
  BY DEF CmdStop
<1>2. QueuesTyped(rdy) /\ vb \in [Buf -> VbState] /\ ActiveIn(vb) = Active /\ "dst" \in Queue
  BY ViewFacts DEF IInv, Queue
<1>3. (UNCHANGED <<vb, rdy>> /\ hasStopped' = FALSE) \/ Took
  <2>1. CASE Ready("src")
    BY <2>1 DEF CmdStop, IInv, TypeOK, M2mTypeOK
  <2>2. CASE ~Ready("src") /\ Ready("dst")
    BY <2>2 DEF CmdStop, Removed, AfterRemove, Ready
  <2>3. CASE ~Ready("src") /\ ~Ready("dst")
    BY <2>3 DEF CmdStop, Removed, AfterRemove, BufDone
  <2>4. QED
    BY <2>1, <2>2, <2>3
<1>4. Took => QueuesTyped(r) /\ d \in Buf /\ d \in BufOf("dst") /\ "done" \in VbState
  BY <1>2, TypedFacts DEF BufOf, Buf, VbState
<1>5. TypeOK'
  <2>1. QueuesTyped(rdy') /\ vb' \in [Buf -> VbState]
    <3>1. CASE UNCHANGED <<vb, rdy>>
      BY <1>2, <3>1
    <3>2. CASE Took
      BY <1>2, <1>4, <3>2, BufDoneFacts
    <3>3. QED
      BY <1>3, <3>1, <3>2
  <2>2. hasStopped' \in BOOLEAN /\ isDraining' \in BOOLEAN
    BY DEF CmdStop, Ready, IInv, TypeOK, M2mTypeOK
  <2>3. M2mTypeOK'
    BY <1>1, <2>1, <2>2, NextViewFacts DEF IInv, TypeOK, M2mTypeOK
  <2>4. raced' \in BOOLEAN
    OBVIOUS
  <2>5. QED
    BY <2>3, <2>4 DEF IInv, TypeOK, taskVars, countVars, ctrlVars
<1>6. CommandInv'
  BY <1>1, SameCommandFacts DEF IInv, commandVars, taskVars, countVars, ctrlVars
<1>7. ASSUME ~raced' PROVE JobInv' /\ Conserved'
  <2>1. JobInv /\ Conserved /\ InTask' = InTask /\ InJob' = InJob
    BY <1>7 DEF IInv, InTask, taskVars, InJob
  <2>2. CASE UNCHANGED <<vb, rdy>> /\ hasStopped' = FALSE
    <3>1. JobInv'
      BY <1>1, <2>1, <2>2 DEF JobInv, Done, Ready, IsHeader, taskVars, ctrlVars
    <3>2. Taken' = Taken
      BY <2>1, <2>2 DEF Taken, taskVars
    <3>3. QED
      BY <1>1, <2>1, <2>2, <3>1, <3>2, NoMoveFacts
  <2>3. CASE Took
    <3>1. pc \in {"idle", "ended"}
      BY <1>7, <2>3 DEF Ready, HasBuffer
    <3>2. JobInv'
      BY <1>1, <2>1, <3>1 DEF JobInv, Done, IsHeader, taskVars, ctrlVars
    <3>3. QueuesOK(rdy) /\ Queued(rdy) = InReady
      BY <2>1, ViewFacts DEF IInv
    <3>4. QueuesOK(r) /\ Queued(r) = Queued(rdy) \ {d} /\ d \in Queued(rdy)
      BY <1>2, <2>3, <3>3, TakeFacts
    <3>5. QueuesOK(rdy') /\ InReady' = InReady \ {d} /\ d \in InReady /\ Active' = Active \ {d}
      BY <1>2, <1>4, <2>3, <3>3, <3>4, BufDoneFacts, NextViewFacts
    <3>6. Taken = {} /\ Taken' = {}
      BY <2>1, <3>1 DEF JobInv, Done, Taken, InTask, taskVars
    <3>7. Conserved'
      BY <1>1, <2>1, <3>5, <3>6, NextViewFacts DEF Conserved
    <3>8. QED
      BY <3>2, <3>7
  <2>4. QED
    BY <1>3, <2>2, <2>3
<1>8. QED
  BY <1>5, <1>6, <1>7, KeepFacts

\* STREAMON, with encoder_h264_prepare if the other queue is not on.
LEMMA StreamOnStep ==
  ASSUME IInv, pc # "oops", NEW q \in Queue, StreamOn(q)
  PROVE  IInv'
<1>1. /\ stream[q] = "idle" /\ \A p \in Queue : stream[p] # "cancel"
      /\ stream'[q] = "on" /\ \A p \in Queue : p # q => stream'[p] = stream[p]
      /\ UNCHANGED <<vb, rdy, job, drainVars, aborted, dropped>>
      /\ UNCHANGED <<pc, srcBuf, dstBuf, hw, key, races>>
      /\ Other(q) \in Queue /\ Other(q) # q
      /\ stream' \in [Queue -> {"idle", "on", "cancel", "off"}]
  BY DEF StreamOn, StreamOnQueue, LockFree, IInv, TypeOK, M2mTypeOK, Other, Queue
<1>2. \/ /\ stream[Other(q)] = "on"
         /\ UNCHANGED <<allocated, cmd, second, isLast, countVars, ctl, isNextIdr, boost,
                        headed, delivered, lastIdr, failed>>
      \/ stream[Other(q)] # "on" /\ Prepare
  BY DEF StreamOn
<1>3. TypeOK'
  <2>1. M2mTypeOK'
    BY <1>1 DEF IInv, TypeOK, M2mTypeOK, drainVars
  <2>2. CASE UNCHANGED <<allocated, cmd, second, isLast, countVars, ctl, isNextIdr, boost,
                         headed, delivered, lastIdr, failed>>
    BY <1>1, <2>1, <2>2 DEF IInv, TypeOK, countVars, races
  <2>3. CASE Prepare
    <3>1. ctl' \in Controls /\ ctl'.gop \in Nat \ {0} /\ IdMod \in Nat /\ IdMod > 1
      BY <2>3, EncoderAssumption DEF Prepare, EncoderAssumption, ControlValue
    <3>2. /\ frameNumber' \in 0 .. ctl'.gop /\ idrPicId' \in 0 .. (IdMod - 1)
          /\ lastIdr' \in 0 .. IdMod /\ starts' \in 0 .. 3 /\ boost' \in 0 .. 2
      BY <2>3, <3>1 DEF Prepare
    <3>3. QED
      BY <1>1, <2>1, <2>3, <3>1, <3>2, Zenon DEF Prepare, IInv, TypeOK, Cmd, races
  <2>4. QED
    BY <1>2, <2>2, <2>3
<1>4. ~InJob /\ ~InJob' /\ job # "running"
  BY <1>1 DEF InJob, IInv, CommandInv, StreamInv
<1>5. CommandInv'
  <2>1. CASE Prepare
    BY <1>1, <1>4, <2>1 DEF Prepare, CommandInv, StreamInv, CountInv, HeaderInv, NumberInv,
         TargetInv, Raised, Done, InJob, IInv
  <2>2. CASE UNCHANGED <<allocated, cmd, second, isLast, countVars, ctl, isNextIdr, boost,
                         headed, delivered, lastIdr, failed>> /\ stream[Other(q)] = "on"
    <3>1. Fresh /\ ~Fresh'
      BY <1>1, <2>2 DEF Fresh, Queue, Other
    <3>2. starts = 0 /\ cmd = "none" /\ boost = 0 /\ frameNumber = 0
      BY <3>1 DEF IInv, CommandInv, StreamInv, CountInv
    <3>3. StreamInv'
      BY <1>1, <1>4, <2>2, <3>1 DEF IInv, CommandInv, StreamInv
    <3>4. CountInv' /\ HeaderInv' /\ NumberInv' /\ TargetInv'
      BY <1>1, <1>4, <2>2, <3>2 DEF IInv, CommandInv, CountInv, HeaderInv, NumberInv, TargetInv, Done, InJob, countVars
    <3>5. QED
      BY <3>3, <3>4 DEF CommandInv
  <2>3. QED
    BY <1>2, <2>1, <2>2
<1>6. ASSUME ~raced' PROVE JobInv' /\ Conserved'
  <2>1. JobInv /\ Conserved
    BY <1>1, <1>6 DEF IInv, races
  <2>2. pc = "idle" /\ srcBuf = NoBuf /\ dstBuf = NoBuf
    BY <1>4, <2>1 DEF InJob, JobInv
  <2>3. Taken' = Taken
    BY <1>1 DEF Taken, InTask, races
  <2>4. JobInv'
    BY <1>1, <1>4, <2>1, <2>2 DEF JobInv, InTask, races
  <2>5. QED
    BY <1>1, <2>1, <2>3, <2>4, NoMoveFacts
<1>7. QED
  BY <1>1, <1>3, <1>5, <1>6, KeepFacts

\* The end of STREAMOFF: vb2 gets every buffer of the queue back, and with a
\* drain pending one ready CAPTURE buffer.
LEMMA StopStep ==
  ASSUME IInv, pc # "oops", NEW q \in Queue, StopStreaming(q)
  PROVE  IInv'
<1> USE BufAssumption
<1> DEFINE taken == IF StopTakesDst(q) THEN Removed("dst") ELSE NoBuf
           r1    == [rdy EXCEPT ![q] = << >>]
           r2    == [r1 EXCEPT !["dst"] = Tail(@)]
<1>1. /\ stream[q] = "cancel" /\ job = "none"
      /\ vb' = [b \in Buf |-> IF b = taken THEN "done"
                              ELSE IF QueueOf(b) = q /\ vb[b] = "active" THEN "error"
                              ELSE vb[b]]
      /\ rdy' = [r \in Queue |-> IF r = q THEN << >>
                                 ELSE IF taken # NoBuf THEN Tail(rdy[r]) ELSE rdy[r]]
      /\ dropped' = {b \in dropped : QueueOf(b) # q}
      /\ stream' = [stream EXCEPT ![q] = "off"]
      /\ allocated' = (allocated /\ stream[Other(q)] # "off")
      /\ UNCHANGED <<job, aborted, pc, taskVars, hw, countVars, ctrlVars, boost, history>>
  BY DEF StopStreaming
<1>2. QueuesTyped(rdy) /\ stream \in [Queue -> {"idle", "on", "cancel", "off"}]
  BY ViewFacts DEF IInv, TypeOK, M2mTypeOK
<1>3. QueuesTyped(r1) /\ r1[q] = << >> /\ \A r \in Queue : r # q => r1[r] = rdy[r]
  <2>1. QueuesTyped(r1)
    BY <1>2, TypedFacts
  <2>2. QED
    BY <1>2, <2>1 DEF QueuesTyped
<1>4. /\ taken # NoBuf => /\ q = "src" /\ rdy["dst"] # << >> /\ r1["dst"] # << >>
                          /\ taken = Head(r1["dst"]) /\ rdy' = r2
      /\ taken = NoBuf => rdy' = r1
  <2>1. taken # NoBuf => q = "src" /\ rdy["dst"] # << >> /\ taken = Head(rdy["dst"])
    BY DEF StopTakesDst, Removed, Ready
  <2>2. r1 \in [Queue -> Seq(Buf)] /\ rdy \in [Queue -> Seq(Buf)]
    BY <1>2, <1>3 DEF QueuesTyped
  <2>3. taken = NoBuf => rdy' = r1
    BY <1>1, <2>2
  <2>4. taken # NoBuf => rdy' = r2
    BY <1>1, <2>1, <2>2 DEF Queue
  <2>5. q = "src" => r1["dst"] = rdy["dst"]
    BY <1>3 DEF Queue
  <2>6. QED
    BY <2>1, <2>3, <2>4, <2>5
<1>5. QueuesTyped(rdy') /\ taken \in Buf \cup {NoBuf}
  <2>1. CASE taken # NoBuf
    <3>1. QueuesTyped(r2) /\ Head(r1["dst"]) \in BufOf("dst")
      BY <1>3, <1>4, <2>1, TypedFacts DEF Queue
    <3>2. QED
      BY <1>4, <2>1, <3>1 DEF BufOf, Buf
  <2>2. CASE taken = NoBuf
    BY <1>3, <1>4, <2>2
  <2>3. QED
    BY <2>1, <2>2
<1>6. TypeOK'
  <2>1. vb' \in [Buf -> VbState]
    BY <1>1, ViewFacts DEF IInv, VbState
  <2>2. hasStopped' \in BOOLEAN /\ isDraining' \in BOOLEAN
    BY DEF StopStreaming, UpdateStopState, ClearState, drainVars, Ready, IInv, TypeOK, M2mTypeOK
  <2>3. M2mTypeOK'
    BY <1>1, <1>2, <1>5, <2>1, <2>2, NextViewFacts DEF IInv, TypeOK, M2mTypeOK
  <2>4. QED
    BY <1>1, <2>3 DEF IInv, TypeOK, taskVars, countVars, ctrlVars, history, races
<1>7. /\ InJob' = InJob /\ Blocked' /\ ~Startable' /\ ~Fresh'
      /\ stream'[q] = "off" /\ \A p \in Queue : p # q => stream'[p] = stream[p]
      /\ \A p \in Queue : p # q => p = Other(q)
  BY <1>1, <1>2 DEF InJob, Blocked, Startable, Fresh, Queue, Other
<1>8. CommandInv'
  <2>1. StreamInv'
    BY <1>1, <1>7 DEF IInv, CommandInv, StreamInv
  <2>2. CountInv' /\ HeaderInv' /\ NumberInv' /\ TargetInv'
    BY <1>1, <1>7 DEF IInv, CommandInv, CountInv, HeaderInv, NumberInv, TargetInv, taskVars,
                      countVars, ctrlVars, history, StartsAt, IsHeader, IsFrame, Numbers, Raised, Done
  <2>3. QED
    BY <2>1, <2>2 DEF CommandInv
<1>9. ASSUME ~raced' PROVE JobInv' /\ Conserved'
  <2> DEFINE Of(S) == {b \in S : QueueOf(b) # q}
  <2>1. JobInv /\ Conserved
    BY <1>1, <1>9 DEF IInv, history, races
  <2>2. /\ (pc = "idle" /\ InTask = {}) \/ (overtaken /\ pc \in {"ended", "abort"})
        /\ pc' = pc /\ overtaken' = overtaken /\ InTask' = InTask /\ dstBuf' = dstBuf
        /\ InTask \subseteq Buf
    BY <1>1, <2>1 DEF JobInv, InJob, InTask, taskVars, history, races, IInv, TypeOK, Buf
  <2>3. /\ Taken' = {b \in Taken : vb'[b] = "active"}
        /\ Taken \subseteq Buf /\ Taken \cap InReady = {}
        /\ \A b \in Taken : vb[b] = "active"
    <3>1. \A b \in Taken : vb[b] = "active"
      BY <2>1 DEF Conserved, Active
    <3>2. Taken \subseteq InTask /\ Taken \cap InReady = {}
      BY <2>1 DEF Taken, Conserved
    <3>3. ASSUME NEW b \in InTask
          PROVE  b \in Taken' <=> b \in Taken /\ vb'[b] = "active"
      <4>1. CASE overtaken
        <5>1. b \in Buf /\ (vb'[b] = "active" => vb[b] = "active")
          BY <1>1, <2>2, <3>3
        <5>2. QED
          BY <2>2, <3>3, <4>1, <5>1 DEF Taken
      <4>2. CASE ~overtaken
        BY <2>2, <3>3, <4>2
      <4>3. QED
        BY <4>1, <4>2
    <3>4. QED
      BY <2>2, <3>1, <3>2, <3>3 DEF Taken
  <2>4. JobInv'
    <3>1. \A b \in Buf : QueueOf(b) \in Queue /\ (QueueOf(b) # q => stream'[QueueOf(b)] = stream[QueueOf(b)])
      BY <1>7, BufOfFacts
    <3>2. \A b \in InTask : (vb[b] = "active" \/ stream[QueueOf(b)] = "off") =>
                            (vb'[b] = "active" \/ stream'[QueueOf(b)] = "off" \/ b = taken)
      BY <1>1, <1>7, <2>2, <3>1
    <3>3. pc = "abort" => taken \notin InTask
      <4>1. taken # NoBuf => taken \in InReady /\ vb[taken] = "active"
        <5>1. QueuesOK(rdy) /\ Queued(rdy) = InReady
          BY <2>1, ViewFacts DEF IInv
        <5>2. taken # NoBuf => Head(rdy["dst"]) \in InReady /\ taken = Head(rdy["dst"])
          BY <1>3, <1>4, <5>1, TakeFacts DEF Queue
        <5>3. QED
          BY <2>1, <5>2 DEF Conserved, Active
      <4>2. pc = "abort" => \A b \in InTask : vb[b] = "active" => b \in Taken
        BY DEF Taken
      <4>3. QED
        BY <2>3, <4>1, <4>2 DEF InTask
    <3>4. (pc = "abort" => \A b \in InTask : vb[b] = "active" \/ stream[QueueOf(b)] = "off")'
      BY <2>1, <2>2, <3>2, <3>3 DEF JobInv
    <3>5. QED
      BY <1>1, <1>7, <2>1, <2>2, <3>4 DEF JobInv, Done, IsHeader, taskVars, ctrlVars
  <2>5. QueuesOK(rdy') /\ InReady' = Of(InReady) \ {taken}
    <3>1. QueuesOK(rdy) /\ Queued(rdy) = InReady
      BY <2>1, ViewFacts DEF IInv
    <3>2. QueuesOK(r1) /\ Queued(r1) = Of(InReady)
      BY <3>1, EmptyQueueFacts
    <3>3. CASE taken # NoBuf
      <4>1. QueuesOK(r2) /\ Queued(r2) = Queued(r1) \ {Head(r1["dst"])}
        BY <1>4, <3>2, <3>3, TakeFacts DEF Queue
      <4>2. QED
        BY <1>4, <3>2, <3>3, <4>1, NextViewFacts
    <3>4. CASE taken = NoBuf
      <4>1. NoBuf \notin Queued(r1)
        BY <3>2, QueuedFacts DEF BufAssumption, Buf
      <4>2. QED
        BY <1>4, <3>2, <3>4, <4>1, NextViewFacts
    <3>5. QED
      BY <3>3, <3>4
  <2>6. Active' = Of(Active) \ {taken}
    BY <1>1 DEF Active
  <2>7. taken \in InReady \/ taken = NoBuf
    <3>1. QueuesOK(rdy) /\ Queued(rdy) = InReady
      BY <2>1, ViewFacts DEF IInv
    <3>2. taken # NoBuf => Head(rdy["dst"]) \in InReady /\ taken = Head(rdy["dst"])
      BY <1>3, <1>4, <3>1, TakeFacts DEF Queue
    <3>3. QED
      BY <3>2
  <2>8. Conserved'
    <3>1. NoBuf \notin Active /\ dropped' = Of(dropped) /\ dropped \cap InReady = {}
          /\ Active = InReady \cup Taken \cup dropped /\ dropped \cap Taken = {}
      BY <1>1, <2>1 DEF Active, Buf, BufAssumption, Conserved
    <3>2. Taken' = Of(Taken)
      <4>1. taken \notin Taken
        BY <2>3, <2>7, <3>1 DEF Active
      <4>2. \A b \in Taken : vb'[b] = "active" <=> QueueOf(b) # q
        BY <1>1, <2>3, <4>1
      <4>3. QED
        BY <2>3, <4>2
    <3>3. /\ Active' = InReady' \cup Taken' \cup dropped' /\ dropped' \cap InReady' = {}
          /\ dropped' \cap Taken' = {} /\ InReady' \cap Taken' = {}
      BY <2>3, <2>5, <2>6, <2>7, <3>1, <3>2
    <3>4. QED
      BY <2>5, <3>3, NextViewFacts DEF Conserved
  <2>9. QED
    BY <2>4, <2>8
<1>10. QED
  BY <1>1, <1>6, <1>8, <1>9, KeepFacts

-----------------------------------------------------------------------------
\* Every step keeps the invariant.
LEMMA StepInv == IInv /\ [Next]_vars => IInv'
<1> SUFFICES ASSUME IInv, [Next]_vars
             PROVE  IInv'
  OBVIOUS
<1>1. CASE Job
  BY <1>1, StartStep, TakeStep, ConfigureStep, FailStep, TimeoutStep, AbortStep,
     NextCommandSteps, JobDoneStep, LastStep, FinishStep, EndStep, FreedStep DEF Job
<1>2. CASE pc # "oops" /\ Isr
  BY <1>2, QuietSteps
<1>3. CASE pc # "oops" /\ Stop
  BY <1>3, StopStep DEF Stop
<1>4. CASE pc # "oops" /\ Ioctl
  BY <1>4, QBufStep, StreamOnStep, ControlSteps, QuietSteps, CmdStopStep DEF Ioctl, EncoderCmd, races
<1>5. CASE UNCHANGED vars
  <2>1. /\ UNCHANGED commandVars
        /\ UNCHANGED <<m2mVars, taskVars, hw, ctrlVars, races>>
    BY <1>5 DEF vars, commandVars, m2mVars, taskVars, countVars, ctrlVars, history
  <2>2. TypeOK'
    BY <2>1, SameM2mFacts DEF IInv, TypeOK, commandVars, taskVars, ctrlVars, races
  <2>3. CommandInv'
    BY <2>1, SameCommandFacts DEF IInv
  <2>4. Taken' = Taken
    BY <2>1 DEF Taken, InTask, commandVars, taskVars, races, m2mVars
  <2>5. (JobInv => JobInv') /\ (Conserved => Conserved')
    BY <2>1, <2>4, NoMoveFacts DEF JobInv, InJob, InTask, Done, races, Ready, IsHeader, commandVars, m2mVars,
                                   drainVars, taskVars, ctrlVars
  <2>6. QED
    BY <2>1, <2>2, <2>3, <2>5 DEF IInv, NoCrash, commandVars, races
<1>6. QED
  BY <1>1, <1>2, <1>3, <1>4, <1>5 DEF Next

\* The inductive invariant holds in every reachable state.
THEOREM Invariant == Spec => []IInv
<1>1. Init => IInv
  BY InitInv
<1>2. IInv /\ [Next]_vars => IInv'
  BY StepInv
<1>3. QED
  BY <1>1, <1>2, PTL DEF Spec

\* Type correctness, for any number of buffers and any controls.
THEOREM EncoderTypeCorrect == Spec => []TypeOK
<1>1. IInv => TypeOK
  BY DEF IInv
<1>2. QED
  BY <1>1, Invariant, PTL

\* Until STOP races a job, every buffer of the driver is in one place
\* (encoder_h264.c, meson-vcodec.c).
THEOREM EncoderBuffersConserved == Spec => []BufferConservation
<1>1. IInv => BufferConservation
  BY DEF IInv, JobInv, Conserved, BufferConservation, InTask
<1>2. QED
  BY <1>1, Invariant, PTL

\* ... no buffer is removed twice and no freed context touched.
THEOREM EncoderNeverCrashes == Spec => []NoCrash
<1>1. IInv => NoCrash
  BY DEF IInv
<1>2. QED
  BY <1>1, Invariant, PTL

\* Userspace never gets a frame without a header, whatever the controls
\* (encoder_start).
THEOREM HeaderComesFirst == Spec => []HeaderFirst
<1>1. IInv => HeaderFirst
  BY DEF IInv, CommandInv, HeaderInv, HeaderFirst
<1>2. QED
  BY <1>1, Invariant, PTL

\* Consecutive IDR frames have different numbers (encoder_start).
THEOREM IdrNumbersDiffer == Spec => []IdrNumbers
<1>1. IInv => IdrNumbers
  BY DEF IInv, CommandInv, CountInv, NumberInv, InJob, IdrNumbers
<1>2. QED
  BY <1>1, Invariant, PTL

\* Every other frame is inside the group of pictures its IDR frame began
\* (encoder_start, encoder_done).
THEOREM FramesInGroup == Spec => []InGroup
<1>1. IInv => InGroup
  <2>1. SUFFICES ASSUME IInv, pc = "wait", cmd = "nonidr"
                 PROVE  /\ delivered \in {"frames", "bare"}
                        /\ frameNumber \in 1 .. (ctl.gop - 1)
                        /\ ~raced => srcBuf \notin key
    BY DEF InGroup
  <2>2. frameNumber \in 1 .. (ctl.gop - 1)
    BY <2>1 DEF IInv, CommandInv, CountInv, InJob
  <2>3. QED
    BY <2>1, <2>2 DEF IInv, CommandInv, HeaderInv, JobInv
<1>2. QED
  BY <1>1, Invariant, PTL

\* The stream has the order H.264 demands, for every stream of jobs, aborts and
\* restarts (encoder_start, encoder_done).
THEOREM GroupsRight == Spec => []GroupsInOrder
<1>1. HeaderFirst /\ IdrNumbers /\ InGroup => GroupsInOrder
  BY DEF GroupsInOrder
<1>2. QED
  BY <1>1, HeaderComesFirst, IdrNumbersDiffer, FramesInGroup, PTL

\* The bit target is raised once for an IDR frame (encoder_config_qp).
THEOREM TargetRaisedOnce == Spec => []BoostedOnce
<1>1. IInv => BoostedOnce
  BY DEF IInv, TypeOK, CommandInv, TargetInv, BoostedOnce
<1>2. QED
  BY <1>1, Invariant, PTL

\* A header is followed by an IDR frame in the same job or, for the first header,
\* in the next (encoder_start, encoder_done).
THEOREM HeadersBeginGroups == Spec => HeaderThenIdr
<1> DEFINE Step ==
      cmd = "picture" /\ cmd' # "picture" /\ (~ctl.repeat \/ ctl.join \/ starts = 2) =>
        cmd' \in {"idr", "none"}
<1>1. ASSUME IInv, [Next]_vars
      PROVE  Step
  <2>1. CASE EncoderStart
    <3>1. Startable
      BY <2>1 DEF EncoderStart, JobReady, Startable, Blocked, Queue
    <3>2. PICK src : cmd' = StartCmd(src)
      BY <2>1 DEF EncoderStart
    <3>3. cmd = "picture" => starts # 0 /\ ~ctl.join /\ (starts = 3 => ctl.repeat)
      BY <1>1, <3>1 DEF IInv, CommandInv, CountInv
    <3>4. /\ StartCmd(src) \in {"sequence", "idr", "nonidr"} /\ starts \in {0, 2, 3}
          /\ StartCmd(src) = "sequence" => starts = 0 \/ (starts = 3 /\ ctl.repeat)
          /\ StartCmd(src) = "nonidr" => starts = 3
      BY <1>1, <3>1, StartCmdFacts DEF IInv, CommandInv
    <3>5. QED
      BY <3>2, <3>3, <3>4
  <2>2. CASE NextPart
    BY <2>2 DEF NextPart
  <2>3. ASSUME NEW q \in Queue, StreamOn(q)
        PROVE  Step
    BY <2>3 DEF StreamOn, Prepare
  <2>4. CASE UNCHANGED cmd
    BY <2>4
  <2>5. ASSUME Next, ~EncoderStart, ~NextPart, \A q \in Queue : ~StreamOn(q)
        PROVE  UNCHANGED cmd
    <3>1. CASE Job
      BY <2>5, <3>1 DEF Job, TakeDst, Configure, ConfigureFails, Timeout, AbortEnds, SecondPass,
                        JobDone, LastOfDrain, Finish, EndJob, UseAfterFree, taskVars
    <3>2. CASE Isr \/ Stop
      BY <3>2 DEF Isr, Stop, StopStreaming, taskVars
    <3>3. CASE Ioctl
      BY <2>5, <3>3 DEF Ioctl, UserQBuf, StreamOff, ForceKeyFrame, EncoderCmd, Reconfigure,
                        taskVars
    <3>4. QED
      BY <2>5, <3>1, <3>2, <3>3 DEF Next
  <2>6. QED
    BY <1>1, <2>1, <2>2, <2>3, <2>4, <2>5 DEF vars, taskVars
<1>2. IInv /\ [Next]_vars => [Step]_vars
  BY <1>1
<1>3. QED
  BY <1>2, Invariant, PTL DEF Spec, HeaderThenIdr

-----------------------------------------------------------------------------
(* The rate control for every parameter: its state after a frame, and the     *)
(* quantisers of the tables it gives the hardware.                            *)

Rate == INSTANCE Cbr

\* parameters of the controls and the frame interval: the bounds of the quantiser in
\* order, a bit or more for a frame, one to 255 frames per second
RateParams ==
  {p \in [bitrate : Nat, num : Nat \ {0}, den : Nat \ {0}, min : Nat, max : Nat] :
     p.min <= p.max /\ Rate!AvgBits(p) > 0 /\ Rate!Fps(p) \in 1 .. 255}

\* the states of a rate control whose largest frame so far had "most" bits
RateState(p, most) ==
  {s \in [total : Nat, errorSum : Int, lastError : Int, count : Nat, qpCount : Nat,
          target : Int, qp : Nat] :
     s.count <= Rate!Fps(p) /\ s.total <= s.count * most /\ s.qp \in p.min .. p.max}

\* Rounding towards zero.
LEMMA QuotIs ==
  ASSUME NEW n \in Int, NEW d \in Nat, d > 0
  PROVE  /\ Rate!Quot(n, d) \in Int
         /\ n >= 0 => Rate!Quot(n, d) >= 0
         /\ n <= 0 => Rate!Quot(n, d) <= 0
<1>1. n >= 0 => n \div d \in Nat
  OBVIOUS
<1>2. n < 0 => (-n) \div d \in Nat
  OBVIOUS
<1>3. n < 0 => Rate!Quot(n, d) = -((-n) \div d)
  BY DEF Rate!Quot
<1>4. n >= 0 => Rate!Quot(n, d) = n \div d
  BY DEF Rate!Quot
<1> DEFINE x == n \div d
           y == (-n) \div d
<1> HIDE DEF x, y
<1>5. QED
  BY <1>1, <1>2, <1>3, <1>4 DEF x, y

LEMMA ClipIs ==
  ASSUME NEW n \in Int, NEW lo \in Int, NEW hi \in Int, lo <= hi
  PROVE  /\ Rate!Clip(n, lo, hi) \in lo .. hi
         /\ n \in lo .. hi => Rate!Clip(n, lo, hi) = n
         /\ \A m \in lo .. hi : /\ m < Rate!Clip(n, lo, hi) => m < n
                                /\ m > Rate!Clip(n, lo, hi) => m > n
BY DEF Rate!Clip

\* The moving total is that of at most a second's frames, as if each had been the largest.
LEMMA TotalIs ==
  ASSUME NEW fps \in 1 .. 255, NEW most \in Nat, NEW bits \in 0 .. most, NEW s,
         s.count \in Nat, s.count <= fps, s.total \in Nat, s.total <= s.count * most
  PROVE  /\ Rate!FrameCount(s, fps) \in 1 .. fps
         /\ Rate!MovingTotal(s, fps, bits) \in Nat
         /\ Rate!MovingTotal(s, fps, bits) <= Rate!FrameCount(s, fps) * most
<1> DEFINE n == s.count
           t == s.total
           sum == t + bits
           count == Rate!FrameCount(s, fps)
           total == Rate!MovingTotal(s, fps, bits)
<1>1. n \in Nat /\ n <= fps /\ t \in Nat /\ t <= n * most
  OBVIOUS
<1>2. total = IF n >= fps THEN sum - (sum \div fps) ELSE sum
  BY DEF Rate!MovingTotal
<1>3. count = IF n + 1 < fps THEN n + 1 ELSE fps
  <2> DEFINE c == IF n + 1 < fps THEN n + 1 ELSE fps
  <2>1. Rate!FrameCount(s, fps) = c % 256
    BY DEF Rate!FrameCount
  <2> HIDE DEF n
  <2>2. c \in 1 .. 255
    BY <1>1
  <2> HIDE DEF c
  <2>3. c % 256 = c
    BY <2>2
  <2>4. QED
    BY <2>1, <2>3 DEF c
<1> HIDE DEF n, t, count, total
<1>4. count \in 1 .. fps
  BY <1>1, <1>3
<1>5. CASE n < fps
  <2>1. count = n + 1 /\ total = sum
    BY <1>1, <1>2, <1>3, <1>5
  <2>2. (n + 1) * most = n * most + most
    BY <1>1
  <2> DEFINE x == n * most
             y == (n + 1) * most
  <2>3. x \in Nat /\ y \in Nat
    BY <1>1
  <2>4. t <= x /\ y = x + most
    BY <1>1, <2>2
  <2> HIDE DEF x, y
  <2>5. total \in Nat /\ total <= y
    BY <1>1, <2>1, <2>3, <2>4
  <2>6. QED
    BY <1>4, <2>1, <2>5 DEF y, count, total
<1>6. CASE n = fps
  <2> DEFINE q == sum \div fps
             r == sum % fps
             x == fps * most
             y == q * fps
  <2>1. sum \in Nat /\ sum <= x + most /\ x \in Nat
    BY <1>1, <1>6
  <2>2. q \in Nat /\ r \in 0 .. fps - 1 /\ sum = y + r /\ y \in Nat
    BY <2>1
  <2>3. total = sum - q /\ count = fps
    BY <1>1, <1>2, <1>3, <1>6
  <2>4. q <= y
    <3> HIDE DEF q
    <3>1. q * 1 <= q * fps
      BY <2>2
    <3>2. QED
      BY <2>2, <3>1
  <2>5. q < most => y + fps <= x
    <3> HIDE DEF q, r
    <3>1. SUFFICES ASSUME q + 1 <= most
                   PROVE  y + fps <= x
      BY <2>2
    <3>2. (q + 1) * fps <= most * fps
      BY <2>2, <3>1
    <3>3. QED
      BY <2>2, <3>2
  <2> HIDE DEF q, r, x, y, sum
  <2>6. total \in Nat /\ total <= x
    BY <2>1, <2>2, <2>3, <2>4, <2>5
  <2>7. QED
    BY <1>4, <2>3, <2>6 DEF x, count, total
<1>7. QED
  BY <1>1, <1>5, <1>6

\* amlvenc_h264_cbr_adjust_qp moves the quantiser within its bounds, up if the moving
\* average is above the wanted one and down if it is below.
LEMMA QpIs ==
  ASSUME NEW p \in RateParams, NEW s, s.count \in Nat, s.count > 0, s.total \in Nat,
         s.qp \in p.min .. p.max, s.qpCount \in Nat,
         s = [total |-> s.total, errorSum |-> s.errorSum, lastError |-> s.lastError,
              count |-> s.count, qpCount |-> s.qpCount, target |-> s.target, qp |-> s.qp]
  PROVE  \E new :
           /\ Rate!AdjustQp(s, p) = new
           /\ new.total = s.total /\ new.count = s.count /\ new.target = s.target
           /\ new.lastError = s.lastError /\ new.errorSum \in {s.errorSum, 0}
           /\ new.qpCount \in Nat /\ new.qp \in p.min .. p.max
           /\ new.qp > s.qp => s.total \div s.count > Rate!AvgBits(p)
           /\ new.qp < s.qp => s.total \div s.count < Rate!AvgBits(p)
           /\ new = [total |-> new.total, errorSum |-> new.errorSum, lastError |-> new.lastError,
                     count |-> new.count, qpCount |-> new.qpCount, target |-> new.target,
                     qp |-> new.qp]
<1> DEFINE avg == Rate!AvgBits(p)
           mean == s.total \div s.count
           deviation == Rate!Quot(100 * (mean - avg), avg)
           change == IF deviation > 12 THEN Rate!Clip(deviation \div 12, 1, 6)
                     ELSE IF deviation < -10 THEN Rate!Clip(Rate!Quot(deviation, 10), -4, -1)
                     ELSE 0
           qp == Rate!Clip(s.qp + change, p.min, p.max)
           k == (s.qpCount + 1) % 256
           seen == [s EXCEPT !.qpCount = k]
           moved == [seen EXCEPT !.qp = qp, !.qpCount = 0, !.errorSum = 0]
<1>1. /\ p.min \in Nat /\ p.max \in Nat /\ p.min <= p.max /\ avg > 0 /\ avg \in Nat
      /\ p.bitrate \in Nat /\ p.num \in Nat \ {0} /\ p.den \in Nat \ {0}
  BY DEF RateParams, Rate!AvgBits
<1>2. mean \in Nat
  OBVIOUS
<1>3. Rate!AdjustQp(s, p) =
        IF seen.qpCount < Rate!Fps(p) THEN seen ELSE IF qp = s.qp THEN seen ELSE moved
  BY DEF Rate!AdjustQp
<1>4. seen = [total |-> s.total, errorSum |-> s.errorSum, lastError |-> s.lastError,
              count |-> s.count, qpCount |-> k, target |-> s.target, qp |-> s.qp]
  <2> HIDE DEF k
  <2>1. QED
    OBVIOUS
<1>5. k \in Nat
  OBVIOUS
<1> HIDE DEF k, mean, avg
<1>6. deviation \in Int /\ (deviation > 0 => mean > avg) /\ (deviation < 0 => mean < avg)
  <2> DEFINE n == 100 * (mean - avg)
  <2>1. n \in Int /\ (n <= 0 \/ mean > avg) /\ (n >= 0 \/ mean < avg)
    BY <1>1, <1>2
  <2>2. deviation = Rate!Quot(n, avg)
    OBVIOUS
  <2> HIDE DEF n, deviation
  <2>3. QED
    BY <1>1, <2>1, <2>2, QuotIs
<1> HIDE DEF deviation
<1>7. change \in Int /\ (change > 0 => mean > avg) /\ (change < 0 => mean < avg)
  <2>1. deviation \div 12 \in Int /\ Rate!Quot(deviation, 10) \in Int
    BY <1>6, QuotIs
  <2> DEFINE up == Rate!Clip(deviation \div 12, 1, 6)
             down == Rate!Clip(Rate!Quot(deviation, 10), -4, -1)
  <2>2. up \in 1 .. 6 /\ down \in -4 .. -1
    BY <2>1 DEF Rate!Clip
  <2>3. change = IF deviation > 12 THEN up ELSE IF deviation < -10 THEN down ELSE 0
    OBVIOUS
  <2> HIDE DEF up, down, change
  <2>4. QED
    BY <1>6, <2>2, <2>3
<1> HIDE DEF change
<1>8. /\ qp \in p.min .. p.max
      /\ qp > s.qp => mean > avg
      /\ qp < s.qp => mean < avg
  <2> DEFINE n == s.qp + change
  <2>1. n \in Int /\ s.qp \in Int /\ p.min \in Int /\ p.max \in Int
    BY <1>1, <1>7
  <2> HIDE DEF n
  <2>2. qp \in p.min .. p.max /\ (s.qp < qp => s.qp < n) /\ (s.qp > qp => s.qp > n)
    BY <1>1, <2>1, ClipIs DEF n
  <2> HIDE DEF qp
  <2>3. QED
    BY <1>1, <1>7, <2>1, <2>2 DEF n
<1> HIDE DEF qp, seen
<1>9. moved = [total |-> s.total, errorSum |-> 0, lastError |-> s.lastError,
               count |-> s.count, qpCount |-> 0, target |-> s.target, qp |-> qp]
  <2> DEFINE a == [total |-> s.total, errorSum |-> s.errorSum, lastError |-> s.lastError,
                   count |-> s.count, qpCount |-> k, target |-> s.target, qp |-> qp]
             b == [total |-> s.total, errorSum |-> s.errorSum, lastError |-> s.lastError,
                   count |-> s.count, qpCount |-> 0, target |-> s.target, qp |-> qp]
  <2>1. [seen EXCEPT !.qp = qp] = a
    BY <1>4
  <2>2. [a EXCEPT !.qpCount = 0] = b
    OBVIOUS
  <2>3. [b EXCEPT !.errorSum = 0] =
          [total |-> s.total, errorSum |-> 0, lastError |-> s.lastError,
           count |-> s.count, qpCount |-> 0, target |-> s.target, qp |-> qp]
    OBVIOUS
  <2>4. moved = [[[seen EXCEPT !.qp = qp] EXCEPT !.qpCount = 0] EXCEPT !.errorSum = 0]
    BY <1>4
  <2> HIDE DEF a, b, moved
  <2>5. QED
    BY <2>1, <2>2, <2>3, <2>4
<1> HIDE DEF moved
<1>10. CASE Rate!AdjustQp(s, p) = seen
  <2>1. /\ seen.total = s.total /\ seen.count = s.count /\ seen.target = s.target
        /\ seen.lastError = s.lastError /\ seen.errorSum = s.errorSum
        /\ seen.qpCount = k /\ seen.qp = s.qp
    BY <1>4
  <2>2. ~ (s.qp > s.qp) /\ ~ (s.qp < s.qp)
    BY <1>1
  <2>3. QED
    BY <1>4, <1>5, <1>10, <2>1, <2>2
<1>11. CASE Rate!AdjustQp(s, p) = moved
  <2>1. /\ moved.total = s.total /\ moved.count = s.count /\ moved.target = s.target
        /\ moved.lastError = s.lastError /\ moved.errorSum = 0
        /\ moved.qpCount = 0 /\ moved.qp = qp
    BY <1>9
  <2>2. QED
    BY <1>8, <1>9, <1>11, <2>1 DEF mean, avg
<1>12. QED
  BY <1>3, <1>10, <1>11

\* The rate control starts in such a state, and a frame leaves it in one, whatever its
\* size: the moving average never exceeds the largest frame, by which it is divided is
\* never zero, the target stays within half and twice the average, and the quantiser
\* within its bounds, which it moves up only when too many bits were spent and down only
\* when too few were.
THEOREM RateKept ==
  ASSUME NEW p \in RateParams, NEW most \in Nat
  PROVE  /\ Rate!RcInit(p) \in RateState(p, most)
         /\ \A s \in RateState(p, most), bits \in 0 .. most :
              /\ Rate!FrameRight(s, p, most, bits)
              /\ Rate!FrameDone(s, p, bits) \in RateState(p, most)
<1> DEFINE fps == Rate!Fps(p)
           avg == Rate!AvgBits(p)
<1>1. /\ p.min \in Nat /\ p.max \in Nat /\ p.min <= p.max /\ avg > 0 /\ avg \in Nat
      /\ p.bitrate \in Nat /\ fps \in 1 .. 255
  BY DEF RateParams, Rate!AvgBits
<1>2. Rate!RcInit(p) \in RateState(p, most)
  <2> DEFINE qp == Rate!Nearest(p.min + p.max, 2)
             s == [total |-> 0, errorSum |-> 0, lastError |-> 0, count |-> 0, qpCount |-> 0,
                   target |-> avg, qp |-> qp]
  <2>1. qp \in p.min .. p.max
    BY <1>1 DEF Rate!Nearest
  <2>2. Rate!RcInit(p) = s
    BY DEF Rate!RcInit
  <2>3. 0 <= fps /\ 0 <= 0 * most /\ qp \in Nat
    BY <1>1, <2>1
  <2> HIDE DEF qp, fps, avg
  <2>4. /\ s \in [total : Nat, errorSum : Int, lastError : Int, count : Nat, qpCount : Nat,
                   target : Int, qp : Nat]
        /\ s.count = 0 /\ s.total = 0 /\ s.qp = qp
    BY <1>1, <2>3
  <2> HIDE DEF s
  <2>5. QED
    BY <2>1, <2>2, <2>3, <2>4 DEF RateState, fps
<1>3. ASSUME NEW s \in RateState(p, most), NEW bits \in 0 .. most
      PROVE  /\ Rate!FrameRight(s, p, most, bits)
             /\ Rate!FrameDone(s, p, bits) \in RateState(p, most)
  <2> DEFINE total == Rate!MovingTotal(s, fps, bits)
             count == Rate!FrameCount(s, fps)
             error == avg - (total \div count)
             sum == s.errorSum + error
             adjustment == Rate!Quot(400 * error, 1000) + Rate!Quot(25 * sum, 1000)
                             + Rate!Quot(50 * (error - s.lastError), 1000)
             target == Rate!Clip(avg + adjustment - (p.bitrate \div fps), avg \div 2, 2 * avg)
             rate == [s EXCEPT !.total = total, !.count = count, !.errorSum = sum,
                               !.lastError = error, !.target = target]
  <2>1. /\ s.total \in Nat /\ s.errorSum \in Int /\ s.lastError \in Int /\ s.count \in Nat
        /\ s.qpCount \in Nat /\ s.qp \in Nat
        /\ s.count <= fps /\ s.total <= s.count * most /\ s.qp \in p.min .. p.max
        /\ s = [total |-> s.total, errorSum |-> s.errorSum, lastError |-> s.lastError,
                count |-> s.count, qpCount |-> s.qpCount, target |-> s.target, qp |-> s.qp]
    BY DEF RateState
  <2>2. Rate!AdjustRate(s, p, bits) = rate
    BY DEF Rate!AdjustRate
  <2>3. count \in 1 .. fps /\ total \in Nat /\ total <= count * most
    BY <1>1, <2>1, TotalIs
  <2> HIDE DEF total, count, fps, avg
  <2>4. error \in Int /\ sum \in Int
    BY <1>1, <2>1, <2>3
  <2> HIDE DEF error, sum
  <2>5. adjustment \in Int
    <3>1. ASSUME NEW n \in Int
          PROVE  Rate!Quot(n, 1000) \in Int
      BY QuotIs
    <3>2. 400 * error \in Int /\ 25 * sum \in Int /\ 50 * (error - s.lastError) \in Int
      BY <2>1, <2>4
    <3>3. /\ Rate!Quot(400 * error, 1000) \in Int /\ Rate!Quot(25 * sum, 1000) \in Int
          /\ Rate!Quot(50 * (error - s.lastError), 1000) \in Int
      BY <3>1, <3>2
    <3>4. QED
      BY <3>3
  <2> HIDE DEF adjustment
  <2>6. target \in avg \div 2 .. 2 * avg
    <3> DEFINE n == avg + adjustment - (p.bitrate \div fps)
               lo == avg \div 2
               hi == 2 * avg
    <3>1. n \in Int /\ lo \in Int /\ hi \in Int /\ lo <= hi
      BY <1>1, <2>5
    <3>2. target = Rate!Clip(n, lo, hi)
      OBVIOUS
    <3> HIDE DEF n, lo, hi, target
    <3>3. target \in lo .. hi
      BY <3>1, <3>2, ClipIs
    <3>4. QED
      BY <3>3 DEF lo, hi
  <2> HIDE DEF target
  <2>7. rate = [total |-> total, errorSum |-> sum, lastError |-> error, count |-> count,
                qpCount |-> s.qpCount, target |-> target, qp |-> s.qp]
    <3> DEFINE R(t, e, l, c, g) == [total |-> t, errorSum |-> e, lastError |-> l, count |-> c,
                                    qpCount |-> s.qpCount, target |-> g, qp |-> s.qp]
    <3> DEFINE r1 == R(total, s.errorSum, s.lastError, s.count, s.target)
               r2 == R(total, s.errorSum, s.lastError, count, s.target)
               r3 == R(total, sum, s.lastError, count, s.target)
               r4 == R(total, sum, error, count, s.target)
    <3>1. [s EXCEPT !.total = total] = r1
      BY <2>1
    <3>2. [r1 EXCEPT !.count = count] = r2
      OBVIOUS
    <3>3. [r2 EXCEPT !.errorSum = sum] = r3
      OBVIOUS
    <3>4. [r3 EXCEPT !.lastError = error] = r4
      OBVIOUS
    <3>5. [r4 EXCEPT !.target = target] = R(total, sum, error, count, target)
      OBVIOUS
    <3>6. rate = [[[[[s EXCEPT !.total = total] EXCEPT !.count = count] EXCEPT !.errorSum = sum]
                    EXCEPT !.lastError = error] EXCEPT !.target = target]
      OBVIOUS
    <3> HIDE DEF r1, r2, r3, r4, rate
    <3>7. QED
      BY <3>1, <3>2, <3>3, <3>4, <3>5, <3>6
  <2> HIDE DEF rate
  <2>8. /\ rate.total = total /\ rate.count = count /\ rate.target = target
        /\ rate.errorSum = sum /\ rate.lastError = error
        /\ rate.qpCount = s.qpCount /\ rate.qp = s.qp
    BY <2>7
  <2>9. PICK new :
          /\ Rate!AdjustQp(rate, p) = new
          /\ new.total = total /\ new.count = count /\ new.target = target
          /\ new.lastError = error /\ new.errorSum \in {sum, 0}
          /\ new.qpCount \in Nat /\ new.qp \in p.min .. p.max
          /\ new.qp > s.qp => total \div count > avg
          /\ new.qp < s.qp => total \div count < avg
          /\ new = [total |-> new.total, errorSum |-> new.errorSum, lastError |-> new.lastError,
                    count |-> new.count, qpCount |-> new.qpCount, target |-> new.target,
                    qp |-> new.qp]
    <3>1. rate.count \in Nat /\ rate.count > 0 /\ rate.total \in Nat /\ rate.qp \in p.min .. p.max
      BY <2>1, <2>3, <2>8
    <3>2. rate.qpCount \in Nat
      BY <2>1, <2>8
    <3>3. rate = [total |-> rate.total, errorSum |-> rate.errorSum, lastError |-> rate.lastError,
                  count |-> rate.count, qpCount |-> rate.qpCount, target |-> rate.target,
                  qp |-> rate.qp]
      BY <2>7
    <3>4. QED
      BY <2>8, <3>1, <3>2, <3>3, QpIs DEF avg
  <2>10. Rate!FrameDone(s, p, bits) = new
    BY <2>2, <2>9 DEF Rate!FrameDone
  <2>11. Rate!FrameRight(s, p, most, bits)
    BY <2>3, <2>6, <2>9, <2>10 DEF Rate!FrameRight, avg, fps
  <2>12. new \in RateState(p, most)
    <3>1. new \in [total : Nat, errorSum : Int, lastError : Int, count : Nat, qpCount : Nat,
                   target : Int, qp : Nat]
      <4>1. /\ new.total \in Nat /\ new.errorSum \in Int /\ new.lastError \in Int
            /\ new.count \in Nat /\ new.qpCount \in Nat /\ new.target \in Int /\ new.qp \in Nat
        BY <1>1, <2>3, <2>4, <2>6, <2>9
      <4>2. QED
        BY <2>9, <4>1
    <3>2. new.count <= fps /\ new.total <= new.count * most
      BY <1>1, <2>3, <2>9
    <3>3. QED
      BY <2>9, <3>1, <3>2 DEF RateState, fps
  <2>13. QED
    BY <2>10, <2>11, <2>12
<1>4. QED
  BY <1>2, <1>3

\* a set of numbers has a least member
LEMMA LeastNat ==
  ASSUME NEW ns \in SUBSET Nat, ns # {}
  PROVE  \E n \in ns : \A m \in ns : n <= m
<1>1. \E n \in ns : \A m \in ns : ~ (<<m, n>> \in OpToRel(<, Nat))
  BY WFMin, NatLessThanWellFounded, Zenon
<1>2. PICK n \in ns : \A m \in ns : ~ (<<m, n>> \in OpToRel(<, Nat))
  BY <1>1
<1>3. \A m \in ns : ~ (m < n)
  BY <1>2 DEF OpToRel
<1>4. QED
  BY <1>3

\* A quantiser that is clamped is within the bounds, stays if it was, and greater ones
\* stay greater.
LEMMA ClampedQp ==
  ASSUME NEW tbl \in [Rate!Cell -> Int], NEW min \in Nat, NEW max \in Nat, min <= max
  PROVE  /\ Rate!ClampQp(tbl, min, max) \in [Rate!Cell -> min .. max]
         /\ \A c \in Rate!Cell : tbl[c] \in min .. max => Rate!ClampQp(tbl, min, max)[c] = tbl[c]
         /\ \A c, d \in Rate!Cell :
              tbl[c] >= tbl[d] => Rate!ClampQp(tbl, min, max)[c] >= Rate!ClampQp(tbl, min, max)[d]
<1> DEFINE new == Rate!ClampQp(tbl, min, max)
<1>1. new = [c \in Rate!Cell |-> Rate!Clip(tbl[c], min, max)]
  BY DEF Rate!ClampQp
<1> HIDE DEF new
<1>2. \A c \in Rate!Cell : tbl[c] \in Int /\ new[c] = Rate!Clip(tbl[c], min, max)
  BY <1>1
<1>3. \A c \in Rate!Cell : new[c] \in min .. max /\ (tbl[c] \in min .. max => new[c] = tbl[c])
  <2>1. ASSUME NEW n \in Int
        PROVE  /\ Rate!Clip(n, min, max) \in min .. max
               /\ n \in min .. max => Rate!Clip(n, min, max) = n
    BY ClipIs
  <2>2. QED
    BY <1>2, <2>1
<1>4. \A c, d \in Rate!Cell : tbl[c] >= tbl[d] => new[c] >= new[d]
  BY <1>2 DEF Rate!Clip
<1>5. QED
  BY <1>1, <1>3, <1>4 DEF new

\* the cell of the row before
Above(c) == <<c[1] - 1, c[2]>>

\* a table of the bounds whose later rows have no smaller quantisers
Rows(min, max) ==
  {tbl \in [Rate!Cell -> min .. max] :
     \A c \in Rate!Cell : c[1] > 0 => tbl[c] >= tbl[Above(c)]}

\* The adjustments are not negative and do not fall from row to row.
LEMMA AdjustmentsRise ==
  ASSUME NEW adj \in {Rate!AdjIdr, Rate!AdjNonIdr, Rate!AdjI4I16}
  PROVE  /\ adj \in [Rate!Cell -> Nat]
         /\ \A c \in Rate!Cell : c[1] > 0 => Above(c) \in Rate!Cell /\ adj[c] >= adj[Above(c)]
<1>1. ASSUME NEW r \in 0 .. 7, NEW k \in 0 .. 3
      PROVE  /\ <<r, k>> \in Rate!Cell
             /\ Rate!AdjIdr[<<r, k>>] = r
             /\ Rate!AdjNonIdr[<<r, k>>] = IF r < 2 THEN r
                                          ELSE IF r <= 3 THEN 2 * r - 2 + (k \div 2) ELSE r + 2
             /\ Rate!AdjI4I16[<<r, k>>] = IF r < 2 THEN r ELSE IF r = 7 THEN 7 ELSE r + (k \div 2)
  <2>1. <<r, k>> \in Rate!Cell
    BY DEF Rate!Cell
  <2> DEFINE c == <<r, k>>
  <2>2. c[1] = r /\ c[2] = k
    OBVIOUS
  <2> HIDE DEF c
  <2>3. Rate!AdjIdr[c] = r
    BY <2>1, <2>2 DEF Rate!AdjIdr, c
  <2>4. Rate!AdjNonIdr[c] = IF r < 2 THEN r
                            ELSE IF r <= 3 THEN 2 * r - 2 + (k \div 2) ELSE r + 2
    BY <2>1, <2>2 DEF Rate!AdjNonIdr, c
  <2>5. Rate!AdjI4I16[c] = IF r < 2 THEN r ELSE IF r = 7 THEN 7 ELSE r + (k \div 2)
    BY <2>1, <2>2 DEF Rate!AdjI4I16, c
  <2>6. QED
    BY <2>1, <2>3, <2>4, <2>5 DEF c
<1>2. ASSUME NEW c \in Rate!Cell
      PROVE  /\ adj[c] \in Nat
             /\ c[1] > 0 => Above(c) \in Rate!Cell /\ adj[c] >= adj[Above(c)]
  <2>1. PICK r \in 0 .. 7, k \in 0 .. 3 : c = <<r, k>>
    BY DEF Rate!Cell
  <2>2. c[1] = r /\ c[2] = k /\ k \div 2 \in 0 .. 1
    BY <2>1
  <2>3. adj[<<r, k>>] \in Nat
    BY <1>1
  <2>4. r > 0 => r - 1 \in 0 .. 7 /\ Above(c) = <<r - 1, k>>
    BY <2>1, <2>2 DEF Above
  <2>5. r > 0 => <<r - 1, k>> \in Rate!Cell /\ adj[<<r, k>>] >= adj[<<r - 1, k>>]
    <3>1. SUFFICES ASSUME r > 0
                   PROVE  <<r - 1, k>> \in Rate!Cell /\ adj[<<r, k>>] >= adj[<<r - 1, k>>]
      OBVIOUS
    <3> DEFINE l == r - 1
    <3>2. l \in 0 .. 7
      BY <3>1
    <3>3. r = l + 1
      OBVIOUS
    <3> HIDE DEF l
    <3>4. <<l, k>> \in Rate!Cell
      BY <1>1, <3>2
    <3> DEFINE h == k \div 2
               NonIdr(n) == IF n < 2 THEN n ELSE IF n <= 3 THEN 2 * n - 2 + h ELSE n + 2
               I4I16(n) == IF n < 2 THEN n ELSE IF n = 7 THEN 7 ELSE n + h
    <3>a. /\ Rate!AdjIdr[<<r, k>>] = r /\ Rate!AdjIdr[<<l, k>>] = l
          /\ Rate!AdjNonIdr[<<r, k>>] = NonIdr(r) /\ Rate!AdjNonIdr[<<l, k>>] = NonIdr(l)
          /\ Rate!AdjI4I16[<<r, k>>] = I4I16(r) /\ Rate!AdjI4I16[<<l, k>>] = I4I16(l)
      <4> HIDE DEF h
      <4>1. /\ Rate!AdjIdr[<<r, k>>] = r /\ Rate!AdjNonIdr[<<r, k>>] = NonIdr(r)
            /\ Rate!AdjI4I16[<<r, k>>] = I4I16(r)
        BY <1>1 DEF h
      <4>2. /\ Rate!AdjIdr[<<l, k>>] = l /\ Rate!AdjNonIdr[<<l, k>>] = NonIdr(l)
            /\ Rate!AdjI4I16[<<l, k>>] = I4I16(l)
        BY <1>1, <3>2 DEF h
      <4>3. QED
        BY <4>1, <4>2
    <3>b. h \in 0 .. 1
      BY <2>2
    <3> HIDE DEF h
    <3>c. NonIdr(r) >= NonIdr(l) /\ I4I16(r) >= I4I16(l)
      BY <3>2, <3>3, <3>b
    <3> HIDE DEF NonIdr, I4I16
    <3>5. Rate!AdjIdr[<<r, k>>] >= Rate!AdjIdr[<<l, k>>]
      BY <3>a, <3>2, <3>3
    <3>6. Rate!AdjNonIdr[<<r, k>>] >= Rate!AdjNonIdr[<<l, k>>]
      BY <3>a, <3>c
    <3>7. Rate!AdjI4I16[<<r, k>>] >= Rate!AdjI4I16[<<l, k>>]
      BY <3>a, <3>c
    <3>8. QED
      BY <3>4, <3>5, <3>6, <3>7 DEF l
  <2>6. QED
    BY <2>1, <2>2, <2>3, <2>4, <2>5
<1>3. adj = [c \in Rate!Cell |-> adj[c]]
  BY DEF Rate!AdjIdr, Rate!AdjNonIdr, Rate!AdjI4I16
<1>4. QED
  BY <1>2, <1>3

\* For any bounds of the quantiser that are in order, with and without rate control, the quantisers of a
\* frame and of the tables amlvenc_h264_cbr_update_quant_tables gives the hardware are
\* within them, and a later table or row has none that is smaller.
THEOREM QuantisersOrdered ==
  ASSUME NEW rc \in BOOLEAN, NEW isIdr \in BOOLEAN, NEW qp \in Nat,
         NEW adj \in {Rate!AdjIdr, Rate!AdjNonIdr, Rate!AdjI4I16},
         NEW min \in Nat, NEW max \in Nat, min <= max
  PROVE  Rate!QuantsRight(rc, isIdr, adj, min, max, qp)
<1> DEFINE in == Rate!Clip(qp, min, max)
           first == [c \in Rate!Cell |-> IF rc THEN Rate!AtLeast(in - 8, 0) + adj[c] ELSE in]
           table == Rate!QuantTables(rc, in, isIdr, adj, min, max)
           frame == Rate!FrameQuant(rc, in, adj, min, max)
           Higher(i) == [c \in Rate!Cell |-> table[i - 1][c] + Rate!QpStep(isIdr, i - 1)]
<1>1. in \in min .. max
  BY ClipIs
<1>2. /\ adj \in [Rate!Cell -> Nat]
      /\ \A c \in Rate!Cell : c[1] > 0 => Above(c) \in Rate!Cell /\ adj[c] >= adj[Above(c)]
  BY AdjustmentsRise
<1> HIDE DEF in
<1>3. /\ first \in [Rate!Cell -> Int]
      /\ \A c \in Rate!Cell : c[1] > 0 => first[c] >= first[Above(c)]
  <2> DEFINE base == Rate!AtLeast(in - 8, 0)
  <2>1. base \in Nat
    BY <1>1 DEF Rate!AtLeast
  <2> HIDE DEF base
  <2>a. /\ rc => first = [c \in Rate!Cell |-> base + adj[c]]
        /\ ~rc => first = [c \in Rate!Cell |-> in]
    BY DEF base
  <2> HIDE DEF first
  <2>2. first \in [Rate!Cell -> Int]
    <3>1. CASE rc
      BY <1>2, <2>1, <2>a, <3>1
    <3>2. CASE ~rc
      BY <1>1, <2>a, <3>2
    <3>3. QED
      BY <3>1, <3>2
  <2>3. ASSUME NEW c \in Rate!Cell, c[1] > 0
        PROVE  first[c] >= first[Above(c)]
    <3>1. Above(c) \in Rate!Cell /\ adj[c] >= adj[Above(c)] /\ adj[c] \in Nat /\ adj[Above(c)] \in Nat
      BY <1>2, <2>3
    <3>2. CASE rc
      BY <2>1, <2>3, <2>a, <3>1, <3>2
    <3>3. CASE ~rc
      BY <1>1, <2>3, <2>a, <3>1, <3>3
    <3>4. QED
      BY <3>2, <3>3
  <2>4. QED
    BY <2>2, <2>3
<1>4. \A c \in Rate!Cell : frame[c] \in min .. max
  <2>1. CASE rc
    <3> DEFINE t == [c \in Rate!Cell |-> in + adj[c]]
    <3>1. t \in [Rate!Cell -> Int]
      BY <1>1, <1>2
    <3>2. frame = Rate!ClampQp(t, min, max)
      BY <2>1 DEF Rate!FrameQuant
    <3> HIDE DEF t, frame
    <3>3. QED
      BY <3>1, <3>2, ClampedQp
  <2>2. CASE ~rc
    BY <1>1, <2>2 DEF Rate!FrameQuant
  <2>3. QED
    BY <2>1, <2>2
<1>5. \A i \in 0 .. 15 : table[i] = IF i = 0 THEN Rate!ClampQp(first, min, max)
                                   ELSE Rate!ClampQp(Higher(i), min, max)
  <2> DEFINE zero == Rate!ClampQp(first, min, max)
             Stepped(t, i) ==
               Rate!ClampQp([c \in Rate!Cell |-> t[c] + Rate!QpStep(isIdr, i - 1)], min, max)
             Grows(f, m) == f = [i \in 0 .. m |-> IF i = 0 THEN zero ELSE Stepped(f[i - 1], i)]
             tables == CHOOSE f : Grows(f, 15)
  <2>1. Rate!QuantTables(rc, in, isIdr, adj, min, max) = tables
    BY Zenon DEF Rate!QuantTables
  <2> HIDE DEF zero, Stepped
  <2>2. ASSUME NEW m \in Nat
        PROVE  \E f : Grows(f, m)
    <3> DEFINE Bad == {k \in Nat : ~ \E f : Grows(f, k)}
    <3>1. SUFFICES ASSUME Bad # {}
                   PROVE  FALSE
      OBVIOUS
    <3>2. PICK k \in Bad : \A l \in Bad : k <= l
      BY <3>1, LeastNat
    <3>3. CASE k = 0
      <4>1. Grows([i \in 0 .. 0 |-> zero], 0)
        OBVIOUS
      <4>2. QED
        BY <3>2, <3>3, <4>1
    <3>4. CASE k # 0
      <4>1. k - 1 \in Nat /\ k - 1 \notin Bad
        <5>1. k \in Nat
          OBVIOUS
        <5> HIDE DEF Bad
        <5>2. QED
          BY <3>2, <3>4, <5>1
      <4>2. PICK f : Grows(f, k - 1)
        BY <4>1
      <4> DEFINE g == [i \in 0 .. k |-> IF i = k THEN Stepped(f[k - 1], k) ELSE f[i]]
      <4>3. ASSUME NEW i \in 0 .. k
            PROVE  g[i] = IF i = 0 THEN zero ELSE Stepped(g[i - 1], i)
        <5>1. CASE i = k
          BY <3>4, <4>1, <5>1
        <5>2. CASE i # k
          <6>1. i \in 0 .. (k - 1) /\ g[i] = f[i] /\ (i # 0 => g[i - 1] = f[i - 1])
            BY <4>1, <5>2
          <6>2. f[i] = IF i = 0 THEN zero ELSE Stepped(f[i - 1], i)
            BY <4>2, <6>1
          <6>3. QED
            BY <6>1, <6>2
        <5>3. QED
          BY <5>1, <5>2
      <4>4. Grows(g, k)
        BY <4>3
      <4>5. QED
        BY <3>2, <4>4
    <3>5. QED
      BY <3>3, <3>4
  <2>3. Grows(tables, 15)
    BY <2>2
  <2> HIDE DEF tables
  <2>4. \A i \in 0 .. 15 : tables[i] = IF i = 0 THEN zero ELSE Stepped(tables[i - 1], i)
    BY <2>3
  <2> HIDE DEF Grows
  <2>5. QED
    BY <2>1, <2>4 DEF zero, Stepped
<1> HIDE DEF first, table, Higher
\* one table makes the next
<1>6. ASSUME NEW tbl \in [Rate!Cell -> Int],
             \A c \in Rate!Cell : c[1] > 0 => tbl[c] >= tbl[Above(c)]
      PROVE  Rate!ClampQp(tbl, min, max) \in Rows(min, max)
  BY <1>2, <1>6, ClampedQp DEF Rows
<1>7. ASSUME NEW i \in 1 .. 15, table[i - 1] \in Rows(min, max)
      PROVE  /\ table[i] \in Rows(min, max)
             /\ \A c \in Rate!Cell : table[i][c] >= table[i - 1][c]
  <2> DEFINE t == table[i - 1]
             step == Rate!QpStep(isIdr, i - 1)
             n == Higher(i)
  <2>1. /\ t \in [Rate!Cell -> min .. max]
        /\ \A c \in Rate!Cell : c[1] > 0 => t[c] >= t[Above(c)]
    BY <1>7 DEF Rows
  <2>2. step \in 0 .. 1
    BY DEF Rate!QpStep
  <2>3. n = [c \in Rate!Cell |-> t[c] + step]
    BY DEF Higher
  <2>4. table[i] = Rate!ClampQp(n, min, max)
    BY <1>5
  <2>a. t = table[i - 1]
    OBVIOUS
  <2> HIDE DEF t, step, n
  <2>5. n \in [Rate!Cell -> Int] /\ \A c \in Rate!Cell : n[c] = t[c] + step /\ t[c] \in min .. max
    BY <2>1, <2>2, <2>3
  <2>6. \A c \in Rate!Cell : c[1] > 0 => n[c] >= n[Above(c)]
    BY <1>2, <2>1, <2>2, <2>5
  <2>7. Rate!ClampQp(n, min, max) \in Rows(min, max)
    BY <1>6, <2>5, <2>6
  <2>8. \A c \in Rate!Cell : Rate!ClampQp(n, min, max)[c] >= t[c]
    <3>1. \A c \in Rate!Cell : Rate!ClampQp(n, min, max)[c] = Rate!Clip(n[c], min, max)
      BY DEF Rate!ClampQp
    <3>2. QED
      BY <2>2, <2>5, <3>1 DEF Rate!Clip
  <2>9. QED
    BY <2>4, <2>7, <2>8 DEF t
<1>8. \A i \in 0 .. 15 : table[i] \in Rows(min, max)
  <2> DEFINE Bad == {i \in Nat : i <= 15 /\ table[i] \notin Rows(min, max)}
  <2>1. SUFFICES ASSUME Bad # {}
                 PROVE  FALSE
    OBVIOUS
  <2>2. PICK i \in Bad : \A k \in Bad : i <= k
    BY <2>1, LeastNat
  <2>3. i \in 0 .. 15 /\ table[i] \notin Rows(min, max)
    OBVIOUS
  <2>4. i # 0
    BY <1>3, <1>5, <1>6, <2>3
  <2>5. i - 1 \in Nat /\ i - 1 \notin Bad
    <3> HIDE DEF Bad
    <3>1. QED
      BY <2>2, <2>3, <2>4
  <2>6. table[i - 1] \in Rows(min, max)
    BY <2>3, <2>5
  <2>7. QED
    BY <1>7, <2>3, <2>4, <2>6
<1>9. ASSUME NEW i \in 0 .. 15, NEW c \in Rate!Cell
      PROVE  /\ table[i][c] \in min .. max
             /\ i > 0 => table[i][c] >= table[i - 1][c]
             /\ c[1] > 0 => table[i][c] >= table[i][<<c[1] - 1, c[2]>>]
  <2>1. table[i] \in Rows(min, max)
    BY <1>8
  <2>2. i > 0 => table[i][c] >= table[i - 1][c]
    <3>1. SUFFICES ASSUME i > 0
                   PROVE  table[i][c] >= table[i - 1][c]
      OBVIOUS
    <3>2. i \in 1 .. 15 /\ i - 1 \in 0 .. 15
      BY <3>1
    <3>3. QED
      BY <1>7, <1>8, <3>2
  <2>3. QED
    BY <2>1, <2>2 DEF Rows, Above
<1>10. QED
  BY <1>4, <1>9 DEF Rate!QuantsRight, in, table
=============================================================================
