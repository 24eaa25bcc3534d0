------------------------ MODULE ClientProcessProofs -------------------------
(***************************************************************************)
(* What PlayerClient.tla promises of its two threads and ClientProcess.tla *)
(* of the discovery before them, for every script of the server, any       *)
(* latencies of the backends, any answers to the query and behaviours of   *)
(* any length.                                                             *)
(***************************************************************************)
EXTENDS ClientProcess, TimeValProofs, FiniteSetTheorems, SequenceTheorems

\* Where a read begins, and what a header says.
StreamInv ==
    /\ next[1] >= 1 /\ start[1] >= 1
    /\ got = 0 => start = next
    /\ got > 0 => start[1] <= Len(sent)
    /\ framing.of > 0 => /\ framing.of <= Len(sent)
                         /\ framing.kind = sent[framing.of].kind
                         /\ framing.size = sent[framing.of].size

\* Where the reader is as long as nothing was torn.
StepInv ==
    ~torn =>
        IF framing = NoBase
        THEN start[2] = 0 /\ next = <<start[1], got>>
        ELSE /\ framing.of > 0
             /\ start = <<framing.of, HEADER>>
             /\ next = IF got < framing.size THEN <<framing.of, HEADER + got>>
                                             ELSE <<framing.of + 1, 0>>

FrameInv == sent \in SCRIPTS /\ FrameTypes /\ StreamInv /\ StepInv

\* The message being read.
Current == IF framing = NoBase THEN start[1] ELSE framing.of

\* How many codec headers came before it.
Asked == Gen(Current - 1)

\* What was installed is what they ask for, or about to be, and no chunk under way is
\* ahead of it.
GenInv ==
    ~torn /\ main # "ended" =>
        /\ main = "tick"    => dec = Asked /\ player = Asked
        /\ main = "decoder" => dec <= fresh /\ fresh = Asked
        /\ main \in {"make", "player"} => dec = fresh /\ fresh = Asked
        /\ player <= dec
        /\ \A i \in DOMAIN queue : queue[i].gen <= player
        /\ job.gen <= player

\* The lead is that of the latency read last, and the sleep ends at most the lead early.
LeadInv ==
    /\ lead = Lead(played.latency)
    /\ thread \in {"sleep", "decoder", "play"} => job.due - wake <= lead
    /\ thread \in {"decoder", "play"} => now >= wake

PlayerInv == TypeOK /\ StreamInv /\ StepInv /\ GenInv /\ LeadInv /\ NeverBehind

-----------------------------------------------------------------------------
\* The number of codec headers among the first i messages.

LEMMA GenType == ASSUME NEW i \in Nat PROVE Gen(i) \in 0 .. i
  <1> DEFINE S == {j \in 1 .. i : sent[j].kind = "codec"}
  <1>1. IsFiniteSet(1 .. i) /\ Cardinality(1 .. i) = i
    BY FS_Interval
  <1>2. IsFiniteSet(S) /\ Cardinality(S) <= Cardinality(1 .. i)
    BY <1>1, FS_Subset
  <1>3. Cardinality(S) \in Nat
    BY <1>2, FS_CardinalityType
  <1> QED
    BY <1>1, <1>2, <1>3 DEF Gen

LEMMA GenMonotone ==
    ASSUME NEW i \in Nat \ {0}
    PROVE  /\ Gen(i - 1) <= Gen(i)
           /\ sent[i].kind # "codec" => Gen(i) = Gen(i - 1)
  <1> DEFINE S(k) == {j \in 1 .. k : sent[j].kind = "codec"}
  <1>1. IsFiniteSet(1 .. i)
    BY FS_Interval
  <1>2. IsFiniteSet(S(i))
    BY <1>1, FS_Subset
  <1>3. S(i - 1) \subseteq S(i)
    OBVIOUS
  <1>4. Cardinality(S(i - 1)) <= Cardinality(S(i))
    BY <1>2, <1>3, FS_Subset
  <1>5. ASSUME sent[i].kind # "codec"
        PROVE  S(i) = S(i - 1)
    BY <1>5
  <1> QED
    BY <1>4, <1>5 DEF Gen

-----------------------------------------------------------------------------
\* The reader.

LEMMA SentTypes ==
    ASSUME FrameInv, NEW i \in 1 .. Len(sent)
    PROVE  sent[i].kind \in Kinds /\ sent[i].size \in Nat \ {0} /\ Len(sent) \in Nat
  <1>1. sent \in Seq([kind : Kinds, size : Nat \ {0}])
    BY PlayerAssumption DEF FrameInv
  <1>2. sent[i] \in [kind : Kinds, size : Nat \ {0}]
    BY <1>1, ElementOfSeq
  <1>3. Len(sent) \in Nat
    BY <1>1
  <1> QED
    BY <1>2, <1>3

\* The invariant as arithmetic: the length, and the parts of every pair and record.
LEMMA FrameFacts ==
    ASSUME FrameInv
    PROVE  /\ Len(sent) \in Nat
           /\ next = <<next[1], next[2]>> /\ next[1] \in Nat /\ next[2] \in Nat
           /\ start = <<start[1], start[2]>> /\ start[1] \in Nat /\ start[2] \in Nat
           /\ got \in Nat /\ got <= Needed /\ Needed \in Nat
           /\ framing.of \in Nat /\ framing.size \in Nat
           /\ framing # NoBase => framing \in Bases /\ framing.kind \in Kinds
           /\ NoBase \notin Bases
           /\ HEADER \in Nat \ {0}
  <1>1. sent \in Seq([kind : Kinds, size : Nat \ {0}])
    BY PlayerAssumption DEF FrameInv
  <1>2. NoBase \notin Bases
    BY DEF NoBase, Bases, Kinds
  <1>3. framing.of \in Nat /\ framing.size \in Nat
    BY DEF FrameInv, FrameTypes, Bases, NoBase
  <1> QED
    BY <1>1, <1>2, <1>3, FrameAssumption DEF FrameInv, FrameTypes, Bases, Needed

LEMMA ReadUnitFrame ==
    ASSUME FrameInv, ReadUnit
    PROVE  FrameInv' /\ Current' = Current
  <1> USE FrameFacts
  <1>1. next[1] \in 1 .. Len(sent) /\ got < Needed
    BY DEF ReadUnit, AtEnd, FrameInv, StreamInv
  <1>2. sent[next[1]].size \in Nat \ {0}
    BY <1>1, SentTypes
  <1>3. After(next) = IF next[2] + 1 < HEADER + sent[next[1]].size
                      THEN <<next[1], next[2] + 1>> ELSE <<next[1] + 1, 0>>
    BY DEF After
  <1>4. After(next) \in Nat \X Nat /\ After(next)[1] >= 1
    <2>1. CASE next[2] + 1 < HEADER + sent[next[1]].size
      BY <1>1, <1>3, <2>1
    <2>2. CASE ~(next[2] + 1 < HEADER + sent[next[1]].size)
      <3>1. After(next) = <<next[1] + 1, 0>>
        BY <1>3, <2>2
      <3> QED
        BY <1>1, <3>1
    <2> QED
      BY <2>1, <2>2
  <1>5. FrameTypes'
    BY <1>1, <1>4 DEF ReadUnit, FrameInv, FrameTypes, Needed
  <1>6. StreamInv'
    BY <1>1, <1>4 DEF ReadUnit, FrameInv, StreamInv
  <1>7. StepInv'
    <2> SUFFICES ASSUME ~torn
                 PROVE  StepInv'
      BY DEF ReadUnit, StepInv
    <2>1. CASE framing = NoBase
      <3>1. next = <<start[1], got>> /\ got < HEADER
        BY <2>1, <1>1 DEF FrameInv, StepInv, Needed
      <3>2. next[1] = start[1] /\ next[2] = got
        BY <3>1
      <3>3. After(next) = <<start[1], got + 1>>
        BY <3>1, <3>2, <1>2, <1>3, SMTT(30)
      <3> QED
        BY <2>1, <3>3 DEF ReadUnit, FrameInv, StepInv
    <2>2. CASE framing # NoBase
      <3>1. /\ framing.of > 0 /\ got < framing.size
            /\ next = <<framing.of, HEADER + got>>
            /\ sent[framing.of].size = framing.size
        BY <2>2, <1>1 DEF FrameInv, StepInv, StreamInv, Needed
      <3>2. next[1] = framing.of /\ next[2] = HEADER + got
        BY <3>1
      <3>3. After(next) = IF got + 1 < framing.size THEN <<framing.of, HEADER + (got + 1)>>
                                                    ELSE <<framing.of + 1, 0>>
        <4>1. next[2] + 1 < HEADER + sent[next[1]].size <=> got + 1 < framing.size
          <5>1. sent[next[1]].size = framing.size
            BY <3>1, <3>2
          <5>2. next[2] + 1 < HEADER + framing.size <=> got + 1 < framing.size
            BY <3>2, SMTT(30)
          <5> QED
            BY <5>1, <5>2
        <4>2. CASE got + 1 < framing.size
          BY <4>1, <4>2, <3>1, <3>2, <1>3, SMTT(30)
        <4>3. CASE ~(got + 1 < framing.size)
          BY <4>1, <4>3, <3>1, <3>2, <1>3
        <4> QED
          BY <4>2, <4>3
      <3> QED
        BY <2>2, <3>1, <3>3 DEF ReadUnit, FrameInv, StepInv
    <2> QED
      BY <2>1, <2>2
  <1> QED
    BY <1>5, <1>6, <1>7 DEF ReadUnit, FrameInv, Current

LEMMA TimeoutFrame ==
    ASSUME FrameInv, ReadTimesOut
    PROVE  FrameInv' /\ (~torn' => Current' = Current)
  <1> USE FrameFacts
  <1>1. FrameTypes'
    BY DEF ReadTimesOut, KeepFraming, FrameInv, FrameTypes, Needed
  <1>2. StreamInv'
    BY DEF ReadTimesOut, KeepFraming, FrameInv, StreamInv
  <1>3. ASSUME ~torn'
        PROVE  ~torn /\ got = 0 /\ start' = start
    <2>1. ~torn /\ ~(got > 0)
      BY <1>3, Zenon DEF ReadTimesOut
    <2>2. got = 0
      BY <2>1
    <2> QED
      BY <2>1, <2>2 DEF ReadTimesOut, FrameInv, StreamInv
  <1> QED
    BY <1>1, <1>2, <1>3 DEF ReadTimesOut, KeepFraming, FrameInv, StepInv, Current

LEMMA OnHeaderFrame ==
    ASSUME FrameInv, OnHeader
    PROVE  FrameInv' /\ (~torn' => Current' = Current)
  <1> USE FrameFacts
  <1>1. /\ framing = NoBase /\ got = HEADER /\ got > 0
        /\ start[1] \in 1 .. Len(sent)
    BY DEF OnHeader, FrameInv, StreamInv
  <1>2. sent[start[1]].kind \in Kinds /\ sent[start[1]].size \in Nat \ {0}
    BY <1>1, SentTypes
  <1>3. framing' \in Parsed /\ Parsed \subseteq Bases
    BY <1>1, <1>2, FrameAssumption DEF OnHeader, Parsed, Bases
  <1>4. framing'.of > 0 => /\ start[2] = 0
                           /\ framing' = [kind |-> sent[start[1]].kind,
                                          size |-> sent[start[1]].size, of |-> start[1]]
    BY <1>3 DEF Parsed
  <1>5. FrameTypes'
    BY <1>3 DEF OnHeader, FrameInv, FrameTypes, Needed, Bases
  <1>6. StreamInv'
    BY <1>1, <1>4 DEF OnHeader, FrameInv, StreamInv
  <1>7. ASSUME ~torn'
        PROVE  StepInv' /\ Current' = Current
    <2>1. ~torn /\ start[2] = 0 /\ next = <<start[1], HEADER>>
      BY <1>1, <1>7 DEF OnHeader, FrameInv, StepInv
    <2>2. framing' = [kind |-> sent[start[1]].kind, size |-> sent[start[1]].size,
                      of |-> start[1]]
      BY <1>3, <2>1 DEF Parsed
    <2>3. framing' # NoBase
      BY <1>3
    <2> QED
      BY <1>1, <1>2, <2>1, <2>2, <2>3 DEF OnHeader, StepInv, Current
  <1>8. StepInv'
    BY <1>7 DEF StepInv
  <1> QED
    BY <1>5, <1>6, <1>7, <1>8 DEF OnHeader, FrameInv

\* A message is handed over when its turn has come, and it is the one read.
LEMMA OnPacketFrame ==
    ASSUME FrameInv, NEW kind \in Kinds, OnPacket(kind)
    PROVE  /\ FrameInv'
           /\ Received \in 0 .. Len(sent)
           /\ ~torn' => /\ Current \in 1 .. Len(sent) /\ sent[Current].kind = kind
                        /\ Received = Current /\ Current' = Current + 1
  <1> USE FrameFacts
  <1>1. FrameTypes'
    BY DEF OnPacket, FrameInv, FrameTypes, Needed
  <1>2. StreamInv'
    BY DEF OnPacket, FrameInv, StreamInv, NoBase
  <1>3. ASSUME ~torn'
        PROVE  /\ framing # NoBase /\ framing.of > 0 /\ framing.of <= Len(sent)
               /\ start = <<framing.of, HEADER>> /\ next = <<framing.of + 1, 0>>
               /\ sent[framing.of].kind = kind
    BY <1>3 DEF OnPacket, FrameInv, StepInv, StreamInv, Needed
  <1>4. StepInv'
    BY <1>3 DEF OnPacket, StepInv
  <1>5. Received \in 0 .. Len(sent)
    BY DEF Received, Intact, FrameInv, StreamInv
  <1> QED
    BY <1>1, <1>2, <1>3, <1>4, <1>5 DEF OnPacket, FrameInv, Received, Intact, Current

LEMMA AskedSame ==
    ASSUME sent' = sent, Current' = Current
    PROVE  Asked' = Asked
  BY DEF Asked, Gen

LEMMA AskedNext ==
    ASSUME FrameInv, NEW kind \in Kinds, OnPacket(kind), ~torn'
    PROVE  /\ ~torn
           /\ Asked \in Nat /\ Asked' = Gen(Received) /\ Asked <= Asked'
           /\ kind # "codec" => Asked' = Asked
  <1>1. Current \in 1 .. Len(sent) /\ sent[Current].kind = kind /\ Received = Current
        /\ Current' = Current + 1
    BY OnPacketFrame
  <1>2. Current \in Nat \ {0} /\ Current - 1 \in Nat /\ Current' - 1 = Current
    <2>1. Len(sent) \in Nat
      BY FrameFacts
    <2>2. Current \in 1 .. Len(sent) /\ Current' = Current + 1
      BY <1>1
    <2> HIDE DEF Current
    <2> QED
      BY <2>1, <2>2
  <1>3. sent' = sent /\ ~torn
    BY DEF OnPacket
  <1>4. Asked' = Gen(Current)
    BY <1>2, <1>3 DEF Asked, Gen
  <1>5. Asked \in Nat
    BY <1>2, GenType DEF Asked
  <1> QED
    BY <1>1, <1>2, <1>3, <1>4, <1>5, GenMonotone DEF Asked

LEMMA FrameSame ==
    ASSUME FrameInv, UNCHANGED frameVars
    PROVE  FrameInv' /\ torn' = torn /\ sent' = sent /\ Asked' = Asked
  <1>1. Current' = Current
    BY DEF frameVars, Current
  <1> QED
    BY <1>1, AskedSame DEF frameVars, FrameInv, FrameTypes, StreamInv, StepInv, Needed

\* A step of the reader that hands nothing over.
LEMMA TickFrame ==
    ASSUME FrameInv, ReadUnit \/ ReadTimesOut \/ OnHeader
    PROVE  /\ FrameInv' /\ sent' = sent
           /\ ~torn' => ~torn /\ Asked' = Asked
  <1>1. FrameInv' /\ (~torn' => Current' = Current)
    BY ReadUnitFrame, TimeoutFrame, OnHeaderFrame
  <1>2. sent' = sent
    BY DEF ReadUnit, ReadTimesOut, OnHeader
  <1>3. ~torn' => ~torn
    BY Zenon DEF ReadUnit, ReadTimesOut, OnHeader
  <1> QED
    BY <1>1, <1>2, <1>3, AskedSame

-----------------------------------------------------------------------------
\* The types that are not the reader's.

OtherTypes ==
    /\ now \in 0 .. MAX_TIME
    /\ main \in {"tick", "decoder", "make", "player", "ended"}
    /\ fresh \in 0 .. Len(sent) /\ unheard \in Nat
    /\ thread \in {"recv", "sleep", "decoder", "play", "write", "dead"}
    /\ queue \in Seq(Chunks) /\ job \in Chunks \cup {NoJob}
    /\ wake \in 0 .. MAX_TIME /\ lead \in Nat \ {0}
    /\ dec \in 0 .. Len(sent) /\ player \in 0 .. Len(sent)
    /\ played \in [id : 0 .. Len(sent), gen : 0 .. Len(sent), ahead : Int,
                   latency : Nat, dec : 0 .. Len(sent), player : 0 .. Len(sent)]

LEMMA TypesSplit == PlayerInv <=> FrameInv /\ OtherTypes /\ GenInv /\ LeadInv
                                  /\ NeverBehind
  BY DEF PlayerInv, TypeOK, FrameInv, OtherTypes

\* The parts of the chunk the player thread has taken.
LEMMA JobTypes ==
    ASSUME FrameInv, OtherTypes
    PROVE  /\ job \in Chunks \cup {NoJob} /\ job.id \in 0 .. Len(sent)
           /\ job.gen \in 0 .. Len(sent) /\ job.gen \in Nat /\ job.due \in Int
  <1>1. Len(sent) \in Nat /\ MAX_TIME \in Nat
    BY FrameFacts, PlayerAssumption
  <1>2. CASE job \in Chunks
    BY <1>1, <1>2 DEF Chunks
  <1>3. CASE job = NoJob
    BY <1>1, <1>3 DEF NoJob, None
  <1> QED
    BY <1>2, <1>3 DEF OtherTypes

LEMMA TypesSplitNext ==
    ASSUME FrameInv', OtherTypes', GenInv', LeadInv' /\ NeverBehind'
    PROVE  PlayerInv'
  BY DEF PlayerInv, TypeOK, FrameInv, OtherTypes

LEMMA InitPlayer == Init => PlayerInv
  <1> SUFFICES ASSUME Init
               PROVE  PlayerInv
    OBVIOUS
  <1>1. sent \in Seq([kind : Kinds, size : Nat \ {0}]) /\ Len(sent) \in Nat
    <2>1. sent \in SCRIPTS
      BY DEF Init
    <2>2. sent \in Seq([kind : Kinds, size : Nat \ {0}])
      BY <2>1, PlayerAssumption
    <2> QED
      BY <2>2
  <1>2. framing = NoBase /\ NoBase.of = 0 /\ torn = FALSE
    BY DEF Init, FrameInit, NoBase
  <1>3. FrameInv
    <2>1. /\ sent \in SCRIPTS /\ next = <<1, 0>> /\ start = <<1, 0>>
          /\ got = 0 /\ Needed = HEADER
      BY <1>2 DEF Init, FrameInit, Needed
    <2>2. FrameTypes
      <3>1. next \in Nat \X Nat /\ start \in Nat \X Nat
        BY <2>1
      <3>2. got \in 0 .. Needed
        BY <2>1, FrameAssumption
      <3>3. torn \in BOOLEAN
        BY <1>2, Zenon
      <3> QED
        BY <1>2, <3>1, <3>2, <3>3, Zenon DEF FrameTypes
    <2>3. StreamInv /\ StepInv
      BY <1>2, <2>1 DEF StreamInv, StepInv
    <2> QED
      BY <2>1, <2>2, <2>3 DEF FrameInv
  <1>4. OtherTypes
    BY <1>1, PlayerAssumption DEF Init, OtherTypes, None, NoJob
  <1>5. Asked = 0
    <2>1. Current = 1
      BY <1>2 DEF Init, FrameInit, Current
    <2>2. Gen(0) \in 0 .. 0
      BY GenType
    <2> QED
      BY <2>1, <2>2 DEF Asked
  <1>6. GenInv
    BY <1>5 DEF Init, GenInv, None, NoJob
  <1>7. LeadInv
    BY PlayerAssumption DEF Init, LeadInv, Lead
  <1>8. NeverBehind
    BY DEF Init, NeverBehind, None
  <1> QED
    BY <1>3, <1>4, <1>6, <1>7, <1>8, TypesSplit

-----------------------------------------------------------------------------
\* What the player thread relies on is not touched by main.
LEMMA ThreadSame ==
    ASSUME PlayerInv, UNCHANGED <<now, threadVars>>, ~torn' => ~torn
    PROVE  LeadInv' /\ NeverBehind'
  <1>1. LeadInv'
    BY DEF PlayerInv, threadVars, LeadInv, Lead
  <1>2. NeverBehind'
    BY DEF PlayerInv, threadVars, NeverBehind
  <1> QED
    BY <1>1, <1>2

LEMMA TickKeeps == ASSUME PlayerInv, Tick PROVE PlayerInv'
  <1>1. FrameInv /\ OtherTypes /\ GenInv
    BY TypesSplit
  <1>2. FrameInv' /\ sent' = sent /\ (~torn' => ~torn /\ Asked' = Asked)
    BY <1>1, TickFrame DEF Tick
  <1>3. OtherTypes'
    BY <1>1, <1>2 DEF Tick, OtherTypes, Chunks, mainVars, sharedVars, threadVars
  <1>4. GenInv'
    BY <1>1, <1>2 DEF Tick, GenInv, mainVars, sharedVars, threadVars
  <1>5. LeadInv' /\ NeverBehind'
    BY <1>2, ThreadSame DEF Tick
  <1> QED
    BY <1>2, <1>3, <1>4, <1>5, TypesSplitNext

LEMMA HandleNothingKeeps == ASSUME PlayerInv, HandleNothing PROVE PlayerInv'
  <1>1. FrameInv /\ OtherTypes /\ GenInv
    BY TypesSplit
  <1>2. PICK kind \in {"other", "chunk"} : OnPacket(kind)
    BY DEF HandleNothing
  <1>3. kind \in Kinds
    BY DEF Kinds
  <1>4. FrameInv' /\ sent' = sent /\ (~torn' => ~torn /\ Asked' = Asked)
    BY <1>1, <1>2, <1>3, OnPacketFrame, AskedNext DEF OnPacket
  <1>5. OtherTypes'
    BY <1>1, <1>4 DEF HandleNothing, OtherTypes, Chunks, mainVars, sharedVars, threadVars
  <1>6. GenInv'
    BY <1>1, <1>4 DEF HandleNothing, GenInv, mainVars, sharedVars, threadVars
  <1>7. LeadInv' /\ NeverBehind'
    BY <1>4, ThreadSame DEF HandleNothing
  <1> QED
    BY <1>4, <1>5, <1>6, <1>7, TypesSplitNext

LEMMA HandleChunkKeeps == ASSUME PlayerInv, HandleChunk PROVE PlayerInv'
  <1>1. FrameInv /\ OtherTypes /\ GenInv
    BY TypesSplit
  <1>2. OnPacket("chunk") /\ "chunk" \in Kinds
    BY DEF HandleChunk, Kinds
  <1>3. FrameInv' /\ sent' = sent
    BY <1>1, <1>2, OnPacketFrame DEF OnPacket
  <1>4. ~torn' => ~torn /\ Asked' = Asked /\ Gen(Received) = Asked
    BY <1>1, <1>2, AskedNext
  <1>5. Received \in 0 .. Len(sent) /\ Gen(Received) \in 0 .. Len(sent)
    <2>1. Received \in 0 .. Len(sent) /\ Len(sent) \in Nat
      BY <1>1, <1>2, OnPacketFrame, FrameFacts
    <2>2. Gen(Received) \in 0 .. Received
      BY <2>1, GenType
    <2> QED
      BY <2>1, <2>2
  <1>6. LeadInv' /\ NeverBehind'
    BY <1>4, ThreadSame DEF HandleChunk
  <1>7. CASE Alive
    <2>1. PICK due \in now .. MAX_TIME :
              queue' = Append(queue, [id |-> Received, gen |-> Gen(Received), due |-> due])
      BY <1>7 DEF HandleChunk, Queued
    <2>2. [id |-> Received, gen |-> Gen(Received), due |-> due] \in Chunks
      BY <1>1, <1>5 DEF Chunks, OtherTypes
    <2>3. queue' \in Seq(Chunks) /\ main' = main
      BY <1>1, <1>7, <2>1, <2>2, AppendProperties DEF OtherTypes, HandleChunk
    <2>4. OtherTypes'
      BY <1>1, <1>3, <2>3 DEF HandleChunk, Noticed, OtherTypes, Chunks, threadVars
    <2>5. GenInv'
      <3> SUFFICES ASSUME ~torn', main # "ended"
                   PROVE  GenInv'
        BY <2>3 DEF GenInv
      <3>1. dec = Asked /\ player = Asked /\ main = "tick"
            /\ \A i \in DOMAIN queue : queue[i].gen <= player
        BY <1>1, <1>4 DEF GenInv, HandleChunk
      <3>2. \A i \in DOMAIN queue' : queue'[i].gen <= player
        <4>1. TAKE i \in DOMAIN queue'
        <4>2. queue \in Seq(Chunks) /\ Gen(Received) <= player /\ player \in Nat
          BY <1>1, <1>4, <1>5, <3>1 DEF OtherTypes
        <4>3. CASE i \in DOMAIN queue
          BY <2>1, <2>2, <4>2, <4>3, <3>1, AppendProperties
        <4>4. CASE i \notin DOMAIN queue
          <5>1. i = Len(queue) + 1
            BY <2>1, <2>2, <4>2, <4>4, <4>1, AppendProperties
          <5>2. queue'[i] = [id |-> Received, gen |-> Gen(Received), due |-> due]
            BY <2>1, <2>2, <4>2, <5>1, AppendProperties
          <5> QED
            BY <5>2, <4>2
        <4> QED
          BY <4>3, <4>4
      <3> QED
        BY <1>1, <1>4, <2>3, <3>1, <3>2 DEF GenInv, HandleChunk, threadVars
    <2> QED
      BY <1>3, <1>6, <2>4, <2>5, TypesSplitNext
  <1>8. CASE ~Alive
    <2>1. main' = "ended" /\ queue' = queue
      BY <1>8 DEF HandleChunk, SendFails
    <2>2. OtherTypes' /\ GenInv'
      BY <1>1, <1>3, <2>1 DEF HandleChunk, Noticed, OtherTypes, Chunks, threadVars, GenInv
    <2> QED
      BY <1>3, <1>6, <2>2, TypesSplitNext
  <1> QED
    BY <1>7, <1>8

LEMMA HandleCodecKeeps == ASSUME PlayerInv, HandleCodec PROVE PlayerInv'
  <1>1. FrameInv /\ OtherTypes /\ GenInv
    BY TypesSplit
  <1>2. OnPacket("codec") /\ "codec" \in Kinds
    BY DEF HandleCodec, Kinds
  <1>3. FrameInv' /\ sent' = sent
    BY <1>1, <1>2, OnPacketFrame DEF OnPacket
  <1>4. ~torn' => ~torn /\ Asked \in Nat /\ Asked' = fresh' /\ Asked <= fresh'
    BY <1>1, <1>2, AskedNext DEF HandleCodec
  <1>5. fresh' \in 0 .. Len(sent)
    <2>1. Received \in 0 .. Len(sent) /\ Len(sent) \in Nat
      BY <1>1, <1>2, OnPacketFrame, FrameFacts
    <2>2. Gen(Received) \in 0 .. Received
      BY <2>1, GenType
    <2> QED
      BY <2>1, <2>2 DEF HandleCodec
  <1>6. OtherTypes'
    BY <1>1, <1>3, <1>5 DEF HandleCodec, Noticed, OtherTypes, Chunks, sharedVars, threadVars
  <1>7. GenInv'
    BY <1>1, <1>4, <1>5 DEF HandleCodec, GenInv, sharedVars, threadVars
  <1>8. LeadInv' /\ NeverBehind'
    BY <1>4, ThreadSame DEF HandleCodec
  <1> QED
    BY <1>3, <1>6, <1>7, <1>8, TypesSplitNext

\* A step of main that changes nothing but its place.
LEMMA PlaceKeeps ==
    ASSUME PlayerInv, UNCHANGED <<frameVars, now, fresh, unheard, sharedVars, threadVars>>,
           main' = "ended" \/ (main = "make" /\ main' = "player")
    PROVE  PlayerInv'
  <1>1. FrameInv /\ OtherTypes /\ GenInv
    BY TypesSplit
  <1>2. FrameInv' /\ torn' = torn /\ sent' = sent /\ Asked' = Asked
    BY <1>1, FrameSame
  <1>3. OtherTypes'
    BY <1>1, <1>2 DEF OtherTypes, Chunks, sharedVars, threadVars
  <1>4. GenInv'
    BY <1>1, <1>2 DEF GenInv, sharedVars, threadVars
  <1>5. LeadInv' /\ NeverBehind'
    BY <1>2, ThreadSame
  <1> QED
    BY <1>2, <1>3, <1>4, <1>5, TypesSplitNext

LEMMA EndKeeps == ASSUME PlayerInv, Fails \/ MakePlayer \/ MakePlayerFails PROVE PlayerInv'
  <1>1. CASE Fails
    BY <1>1, PlaceKeeps DEF Fails
  <1>2. CASE MakePlayer
    BY <1>2, PlaceKeeps DEF MakePlayer
  <1>3. CASE MakePlayerFails
    BY <1>3, PlaceKeeps DEF MakePlayerFails
  <1> QED
    BY <1>1, <1>2, <1>3

LEMMA InsertDecoderKeeps == ASSUME PlayerInv, InsertDecoder PROVE PlayerInv'
  <1>1. FrameInv /\ OtherTypes /\ GenInv
    BY TypesSplit
  <1>2. FrameInv' /\ torn' = torn /\ sent' = sent /\ Asked' = Asked
    BY <1>1, FrameSame DEF InsertDecoder
  <1>3. OtherTypes'
    BY <1>1, <1>2 DEF InsertDecoder, Noticed, Replace, OtherTypes, Chunks, threadVars
  <1>4. GenInv'
    BY <1>1, <1>2 DEF InsertDecoder, Replace, GenInv, OtherTypes, threadVars
  <1>5. LeadInv' /\ NeverBehind'
    BY <1>2, ThreadSame DEF InsertDecoder
  <1> QED
    BY <1>2, <1>3, <1>4, <1>5, TypesSplitNext

LEMMA InsertPlayerKeeps == ASSUME PlayerInv, InsertPlayer PROVE PlayerInv'
  <1>1. FrameInv /\ OtherTypes /\ GenInv
    BY TypesSplit
  <1>2. FrameInv' /\ torn' = torn /\ sent' = sent /\ Asked' = Asked
    BY <1>1, FrameSame DEF InsertPlayer
  <1>3. OtherTypes'
    <2>1. fresh' = 0 /\ Len(sent) \in Nat
      BY <1>1, FrameFacts DEF InsertPlayer, None
    <2>2. player' = player \/ player' = fresh
      BY DEF InsertPlayer, Replace
    <2>3. main' \in {"tick", "ended"} /\ UNCHANGED <<now, queue, dec, threadVars>>
      BY DEF InsertPlayer
    <2>4. unheard' \in Nat
      BY <1>1 DEF InsertPlayer, Noticed, OtherTypes
    <2> QED
      BY <1>1, <1>2, <2>1, <2>2, <2>3, <2>4 DEF OtherTypes, Chunks, threadVars
  <1>4. GenInv'
    <2> SUFFICES ASSUME ~torn, main' # "ended"
                 PROVE  GenInv'
      BY <1>2 DEF GenInv
    <2>1. /\ main = "player" /\ main' = "tick" /\ player' = fresh /\ dec' = dec
          /\ dec = fresh /\ fresh = Asked /\ player <= dec
      BY <1>1 DEF InsertPlayer, Replace, GenInv
    <2>2. job.gen \in Nat /\ \A i \in DOMAIN queue : queue[i].gen \in Nat
      <3>1. job.gen \in Nat
        BY <1>1, JobTypes
      <3>2. ASSUME NEW i \in DOMAIN queue
            PROVE  queue[i].gen \in Nat
        <4>1. queue \in Seq(Chunks)
          BY <1>1 DEF OtherTypes
        <4>2. queue[i] \in Chunks
          BY <4>1, ElementOfSeq
        <4> QED
          BY <4>2 DEF Chunks
      <3> QED
        BY <3>1, <3>2
    <2>3. dec \in Nat /\ player \in Nat /\ fresh \in Nat
      BY <1>1 DEF OtherTypes
    <2>4. job.gen <= fresh /\ \A i \in DOMAIN queue : queue[i].gen <= fresh
      BY <1>1, <2>1, <2>2, <2>3 DEF GenInv
    <2> QED
      BY <1>2, <2>1, <2>3, <2>4 DEF InsertPlayer, GenInv, threadVars
  <1>5. LeadInv' /\ NeverBehind'
    BY <1>2, ThreadSame DEF InsertPlayer
  <1> QED
    BY <1>2, <1>3, <1>4, <1>5, TypesSplitNext

-----------------------------------------------------------------------------
\* The player thread.

LEMMA TakeKeeps == ASSUME PlayerInv, Take PROVE PlayerInv'
  <1>1. FrameInv /\ OtherTypes /\ GenInv /\ LeadInv
    BY TypesSplit
  <1>2. FrameInv' /\ torn' = torn /\ sent' = sent /\ Asked' = Asked
    BY <1>1, FrameSame DEF Take
  <1>3. /\ queue \in Seq(Chunks) /\ queue # <<>>
        /\ queue' = Tail(queue) /\ queue' \in Seq(Chunks)
        /\ Head(queue) = queue[1] /\ Head(queue) \in Chunks /\ 1 \in DOMAIN queue
        /\ \A i \in DOMAIN queue' : i + 1 \in DOMAIN queue /\ queue'[i] = queue[i + 1]
    <2>1. queue \in Seq(Chunks) /\ queue # <<>> /\ queue' = Tail(queue)
      BY <1>1 DEF Take, OtherTypes
    <2> QED
      BY <2>1, HeadTailProperties, ElementOfSeq
  <1>4. now \in Nat /\ MAX_TIME \in Nat /\ lead \in Nat \ {0}
        /\ Head(queue).due \in 0 .. MAX_TIME
    BY <1>1, <1>3, PlayerAssumption DEF OtherTypes, Chunks
  <1>5. CASE UNCHANGED <<thread, job, wake>>
    <2>1. OtherTypes'
      BY <1>1, <1>2, <1>3, <1>5 DEF Take, OtherTypes, Chunks, mainVars
    <2>2. GenInv'
      BY <1>1, <1>2, <1>3, <1>5 DEF Take, GenInv, mainVars
    <2>3. LeadInv'
      BY <1>1, <1>5 DEF Take, LeadInv, Lead
    <2>4. NeverBehind'
      BY <1>2 DEF Take, PlayerInv, NeverBehind
    <2> QED
      BY <1>2, <2>1, <2>2, <2>3, <2>4, TypesSplitNext
  <1>6. CASE /\ Head(queue).due >= now /\ thread' = "sleep" /\ job' = Head(queue)
             /\ wake' = WakeAt(Head(queue).due)
    <2>1. /\ thread' = "sleep" /\ job' = Head(queue) /\ wake' = WakeAt(Head(queue).due)
          /\ UNCHANGED <<now, lead, played, dec, player, main, fresh, unheard>>
      BY <1>6 DEF Take, mainVars
    <2>2. wake' \in 0 .. MAX_TIME /\ Head(queue).due - wake' <= lead
      <3>1. now \in 0 .. MAX_TIME
        BY <1>1 DEF OtherTypes
      <3>2. CASE Head(queue).due - now > lead
        BY <1>4, <2>1, <3>1, <3>2 DEF WakeAt
      <3>3. CASE ~(Head(queue).due - now > lead)
        BY <1>4, <2>1, <3>1, <3>3 DEF WakeAt
      <3> QED
        BY <3>2, <3>3
    <2>3. OtherTypes'
      BY <1>1, <1>2, <1>3, <2>1, <2>2 DEF OtherTypes, Chunks
    <2>4. GenInv'
      BY <1>1, <1>2, <1>3, <2>1 DEF GenInv
    <2>5. LeadInv'
      BY <1>1, <2>1, <2>2 DEF LeadInv, Lead
    <2>6. NeverBehind'
      BY <1>2 DEF Take, PlayerInv, NeverBehind
    <2> QED
      BY <1>2, <2>3, <2>4, <2>5, <2>6, TypesSplitNext
  <1> QED
    BY <1>5, <1>6 DEF Take

\* A step of the player thread to a lock or to the end of an iteration.
LEMMA LockKeeps ==
    ASSUME PlayerInv, LockDecoder \/ LockPlayer \/ FinishWrite
    PROVE  PlayerInv'
  <1>1. FrameInv /\ OtherTypes /\ GenInv /\ LeadInv
    BY TypesSplit
  <1>2. UNCHANGED <<frameVars, now, mainVars, sharedVars, lead, played>>
    BY DEF LockDecoder, LockPlayer, FinishWrite
  <1>3. FrameInv' /\ torn' = torn /\ sent' = sent /\ Asked' = Asked
    BY <1>1, <1>2, FrameSame
  <1>4. \/ thread' = "recv" /\ job' = NoJob /\ wake' = 0
        \/ /\ thread' \in {"decoder", "play"} /\ now >= wake /\ UNCHANGED <<job, wake>>
           /\ thread \in {"sleep", "decoder", "play"}
    BY <1>1 DEF LockDecoder, LockPlayer, FinishWrite, Iterated, LeadInv
  <1>5. OtherTypes'
    <2>1. /\ thread' \in {"recv", "sleep", "decoder", "play", "write", "dead"}
          /\ job' \in Chunks \cup {NoJob} /\ wake' \in 0 .. MAX_TIME
      BY <1>1, <1>4, PlayerAssumption DEF OtherTypes
    <2> QED
      BY <1>1, <1>2, <1>3, <2>1 DEF OtherTypes, Chunks, mainVars, sharedVars
  <1>6. GenInv'
    <2>1. NoJob.gen = 0 /\ player \in Nat
      BY <1>1 DEF NoJob, None, OtherTypes
    <2> QED
      BY <1>1, <1>2, <1>3, <1>4, <2>1 DEF GenInv, mainVars, sharedVars
  <1>7. LeadInv'
    BY <1>1, <1>2, <1>4 DEF LeadInv, Lead
  <1>8. NeverBehind'
    BY <1>2, <1>3 DEF PlayerInv, NeverBehind
  <1> QED
    BY <1>3, <1>5, <1>6, <1>7, <1>8, TypesSplitNext

LEMMA StartWriteKeeps == ASSUME PlayerInv, StartWrite PROVE PlayerInv'
  <1>1. FrameInv /\ OtherTypes /\ GenInv /\ LeadInv
    BY TypesSplit
  <1>2. FrameInv' /\ torn' = torn /\ sent' = sent /\ Asked' = Asked
    BY <1>1, FrameSame DEF StartWrite
  <1>3. PICK latency \in LATENCIES :
            /\ lead' = Lead(latency)
            /\ played' = [id |-> job.id, gen |-> job.gen, ahead |-> job.due - now,
                          latency |-> latency, dec |-> dec, player |-> player]
    BY DEF StartWrite
  <1>4. lead' \in Nat \ {0} /\ latency \in Nat
    BY <1>3, PlayerAssumption DEF Lead
  <1>5. /\ job \in Chunks \cup {NoJob} /\ job.id \in 0 .. Len(sent)
        /\ job.gen \in 0 .. Len(sent) /\ job.due \in Int
    BY <1>1, JobTypes
  <1>6. /\ played'.latency = latency /\ played'.gen = job.gen
        /\ played'.dec = dec /\ played'.player = player
    BY <1>3
  <1>7. OtherTypes'
    <2>1. played' \in [id : 0 .. Len(sent), gen : 0 .. Len(sent), ahead : Int,
                       latency : Nat, dec : 0 .. Len(sent), player : 0 .. Len(sent)]
      BY <1>1, <1>3, <1>4, <1>5 DEF OtherTypes
    <2> QED
      BY <1>1, <1>2, <1>4, <2>1 DEF StartWrite, OtherTypes, Chunks, mainVars, sharedVars
  <1>8. GenInv'
    BY <1>1, <1>2 DEF StartWrite, GenInv, mainVars, sharedVars
  <1>9. LeadInv'
    BY <1>3, <1>6 DEF StartWrite, LeadInv, Lead
  <1>10. NeverBehind'
    <2>1. ASSUME ~torn
          PROVE  job.gen <= player /\ player <= dec
      BY <1>1, <2>1 DEF StartWrite, GenInv
    <2> QED
      BY <1>1, <1>2, <1>5, <1>6, <2>1 DEF NeverBehind, OtherTypes
  <1> QED
    BY <1>2, <1>7, <1>8, <1>9, <1>10, TypesSplitNext

LEMMA PanicKeeps == ASSUME PlayerInv, Panic PROVE PlayerInv'
  <1>1. FrameInv /\ OtherTypes /\ GenInv /\ LeadInv
    BY TypesSplit
  <1>2. FrameInv' /\ torn' = torn /\ sent' = sent /\ Asked' = Asked
    BY <1>1, FrameSame DEF Panic
  <1>3. OtherTypes'
    BY <1>1, <1>2 DEF Panic, OtherTypes, Chunks, mainVars
  <1>4. GenInv'
    BY <1>1, <1>2 DEF Panic, GenInv, mainVars
  <1>5. LeadInv' /\ NeverBehind'
    BY <1>1, <1>2 DEF Panic, PlayerInv, LeadInv, NeverBehind
  <1> QED
    BY <1>2, <1>3, <1>4, <1>5, TypesSplitNext

LEMMA TimePassesKeeps == ASSUME PlayerInv, TimePasses PROVE PlayerInv'
  <1>1. FrameInv /\ OtherTypes /\ GenInv /\ LeadInv
    BY TypesSplit
  <1>2. FrameInv' /\ torn' = torn /\ sent' = sent /\ Asked' = Asked
    BY <1>1, FrameSame DEF TimePasses
  <1>3. OtherTypes'
    BY <1>1, <1>2, PlayerAssumption
       DEF TimePasses, OtherTypes, Chunks, mainVars, sharedVars, threadVars
  <1>4. GenInv'
    BY <1>1, <1>2 DEF TimePasses, GenInv, mainVars, sharedVars, threadVars
  <1>5. LeadInv'
    BY <1>1 DEF TimePasses, LeadInv, OtherTypes, Lead, threadVars
  <1>6. NeverBehind'
    BY <1>2 DEF TimePasses, PlayerInv, NeverBehind, threadVars
  <1> QED
    BY <1>2, <1>3, <1>4, <1>5, <1>6, TypesSplitNext

LEMMA StutterKeeps == ASSUME PlayerInv, UNCHANGED vars PROVE PlayerInv'
  <1>1. FrameInv /\ OtherTypes /\ GenInv
    BY TypesSplit
  <1>2. FrameInv' /\ torn' = torn /\ sent' = sent /\ Asked' = Asked
    BY <1>1, FrameSame DEF vars
  <1>3. OtherTypes' /\ GenInv'
    BY <1>1, <1>2 DEF vars, OtherTypes, Chunks, GenInv, mainVars, sharedVars, threadVars
  <1>4. LeadInv' /\ NeverBehind'
    BY <1>2, ThreadSame DEF vars
  <1> QED
    BY <1>2, <1>3, <1>4, TypesSplitNext

-----------------------------------------------------------------------------
LEMMA NextPlayer == PlayerInv /\ [Next]_vars => PlayerInv'
  <1> SUFFICES ASSUME PlayerInv, [Next]_vars
               PROVE  PlayerInv'
    OBVIOUS
  <1> QED
    BY TickKeeps, HandleNothingKeeps, HandleChunkKeeps, HandleCodecKeeps, EndKeeps,
       InsertDecoderKeeps, InsertPlayerKeeps, TakeKeeps, LockKeeps, StartWriteKeeps,
       PanicKeeps, TimePassesKeeps, StutterKeeps DEF Next

LEMMA PlayerInvariant == Spec => []PlayerInv
  <1> QED
    BY InitPlayer, NextPlayer, PTL DEF Spec

\* Every variable keeps to its type, whatever passes for a message of a stream that is
\* read out of step: framing.rs, ConnectedClient::tick, main and handle_samples.
THEOREM PlayerTypeCorrect == Spec => []TypeOK
  <1>1. PlayerInv => TypeOK
    BY DEF PlayerInv
  <1> QED
    BY <1>1, PlayerInvariant, PTL

\* Timeouts between two messages, or between a header and its payload, lose nothing: as
\* long as none takes half of either with it, what is read is the message whose turn it is.
THEOREM InStepCorrect == Spec => []InStep
  <1>1. PlayerInv => InStep
    <2> SUFFICES ASSUME PlayerInv, ~torn, framing # NoBase
                 PROVE  framing.of > 0 /\ start[1] = framing.of
      BY DEF InStep
    <2>1. framing.of > 0 /\ start = <<framing.of, HEADER>>
      BY DEF PlayerInv, StepInv
    <2> QED
      BY <2>1
  <1> QED
    BY <1>1, PlayerInvariant, PTL

\* Only the call of write changes what was written last.
LEMMA PlayedByStartWrite == ASSUME [Next]_vars, played' # played PROVE StartWrite
  BY DEF Next, vars, threadVars, Tick, Fails, HandleNothing, HandleChunk, HandleCodec,
         InsertDecoder, MakePlayer, MakePlayerFails, InsertPlayer, Take, LockDecoder,
         LockPlayer, FinishWrite, Panic, TimePasses

\* handle_samples never writes a chunk earlier than what was read as the latency for the
\* chunk before, or 1 ms, although codec headers replace the player at any moment.
THEOREM NeverEarlyCorrect == Spec => NeverEarly
  <1>1. PlayerInv /\ [Next]_vars => [played' # played => played'.ahead <= Lead(played.latency)]_vars
    <2> SUFFICES ASSUME PlayerInv, [Next]_vars, played' # played
                 PROVE  played'.ahead <= Lead(played.latency)
      OBVIOUS
    <2>1. StartWrite
      BY PlayedByStartWrite
    <2>2. FrameInv /\ OtherTypes /\ LeadInv
      BY TypesSplit
    <2>3. played'.ahead = job.due - now /\ job.due - wake <= lead /\ now >= wake
          /\ lead = Lead(played.latency)
      BY <2>1, <2>2 DEF StartWrite, LeadInv
    <2>4. job.due \in Int /\ now \in Int /\ wake \in Int /\ lead \in Int
      BY <2>2, JobTypes DEF OtherTypes
    <2> QED
      BY <2>3, <2>4
  <1> QED
    BY <1>1, PlayerInvariant, PTL DEF Spec, NeverEarly

\* A chunk is never decoded or played by what an earlier codec header than its own asked
\* for: main has installed both before it reads the next message.
THEOREM NeverBehindCorrect == Spec => []NeverBehind
  <1>1. PlayerInv => NeverBehind
    BY DEF PlayerInv
  <1> QED
    BY <1>1, PlayerInvariant, PTL

\* Once main has had something for a player thread that is dead, it reads no further
\* message: send and the poisoned mutexes have ended it, or are about to.
DeadInv == unheard # 0 => thread = "dead" /\ main # "tick"

LEMMA DeadPlayerReadsNothing == Spec => []DeadInv
  <1>1. Init => DeadInv
    BY DEF Init, DeadInv
  <1>2. ASSUME DeadInv, [Next]_vars
        PROVE  DeadInv'
    <2>1. CASE Tick \/ HandleNothing \/ HandleCodec
      BY <1>2, <2>1
         DEF Tick, HandleNothing, HandleCodec, Noticed, Alive, DeadInv, mainVars, threadVars
    <2>2. CASE HandleChunk
      BY <1>2, <2>2 DEF HandleChunk, SendFails, Noticed, Alive, DeadInv, threadVars
    <2>3. CASE InsertDecoder \/ InsertPlayer
      BY <1>2, <2>3
         DEF InsertDecoder, InsertPlayer, Usable, Noticed, Alive, DeadInv, threadVars
    <2>4. CASE Fails \/ MakePlayer \/ MakePlayerFails
      BY <1>2, <2>4 DEF Fails, MakePlayer, MakePlayerFails, DeadInv, threadVars
    <2>5. CASE Take \/ LockDecoder \/ LockPlayer \/ StartWrite \/ FinishWrite \/ Panic
      BY <1>2, <2>5 DEF Take, LockDecoder, LockPlayer, StartWrite, FinishWrite, Panic,
                        DeadInv, mainVars
    <2>6. CASE TimePasses \/ UNCHANGED vars
      BY <1>2, <2>6 DEF TimePasses, vars, DeadInv, mainVars, threadVars
    <2> QED
      BY <1>2, <2>1, <2>2, <2>3, <2>4, <2>5, <2>6 DEF Next
  <1> QED
    BY <1>1, <1>2, PTL DEF Spec

-----------------------------------------------------------------------------
\* The order of the chunks: what was written last, the one in hand and the queue are in
\* the order of the stream, and all of them are behind the message being read.
OrderInv ==
    ~torn /\ main # "ended" =>
        /\ played.id < Current /\ job.id < Current
        /\ thread \in {"sleep", "decoder", "play"} => played.id < job.id
        /\ \A i \in DOMAIN queue : /\ played.id < queue[i].id /\ job.id < queue[i].id
                                   /\ queue[i].id < Current
        /\ \A i, j \in DOMAIN queue : i < j => queue[i].id < queue[j].id

LEMMA OrderTypes ==
    ASSUME PlayerInv
    PROVE  /\ played.id \in Nat /\ job.id \in Nat /\ Current \in Nat
           /\ queue \in Seq(Chunks) /\ \A i \in DOMAIN queue : queue[i].id \in Nat
  <1>1. FrameInv /\ OtherTypes
    BY TypesSplit
  <1>2. played.id \in Nat /\ job.id \in Nat /\ Current \in Nat
    <2>1. played.id \in 0 .. Len(sent) /\ job.id \in 0 .. Len(sent) /\ Len(sent) \in Nat
      BY <1>1, JobTypes, FrameFacts DEF OtherTypes
    <2>2. Current \in Nat
      BY <1>1, FrameFacts DEF Current
    <2> QED
      BY <2>1, <2>2
  <1>3. queue \in Seq(Chunks)
    BY <1>1 DEF OtherTypes
  <1>4. ASSUME NEW i \in DOMAIN queue
        PROVE  queue[i].id \in Nat
    <2>1. queue[i] \in Chunks
      BY <1>3, ElementOfSeq
    <2> QED
      BY <2>1 DEF Chunks
  <1> QED
    BY <1>2, <1>3, <1>4

\* A step of main that queues nothing.
LEMMA ReadOrder ==
    ASSUME PlayerInv, OrderInv, UNCHANGED <<queue, threadVars>>,
           main # "ended", ~torn' => ~torn /\ (Current' = Current \/ Current' = Current + 1)
    PROVE  OrderInv'
  <1> SUFFICES ASSUME ~torn'
               PROVE  OrderInv'
    BY DEF OrderInv
  <1>1. \A n \in Nat : n < Current => n < Current'
    BY OrderTypes
  <1>2. played.id < Current' /\ job.id < Current'
    BY <1>1, OrderTypes DEF OrderInv
  <1>3. \A i \in DOMAIN queue : queue[i].id < Current'
    BY <1>1, OrderTypes DEF OrderInv
  <1> QED
    BY <1>2, <1>3 DEF OrderInv, threadVars

LEMMA MainOrder ==
    ASSUME PlayerInv, OrderInv,
           Tick \/ HandleNothing \/ HandleCodec \/ InsertDecoder \/ MakePlayer \/ InsertPlayer
    PROVE  OrderInv'
  <1>1. FrameInv
    BY TypesSplit
  <1>2. UNCHANGED <<queue, threadVars>> /\ main # "ended"
    BY DEF Tick, HandleNothing, HandleCodec, InsertDecoder, MakePlayer, InsertPlayer, sharedVars
  <1>3. ~torn' => ~torn /\ (Current' = Current \/ Current' = Current + 1)
    <2>1. CASE Tick
      BY <1>1, <2>1, ReadUnitFrame, TimeoutFrame, OnHeaderFrame, TickFrame DEF Tick
    <2>2. CASE HandleNothing \/ HandleCodec
      <3>1. PICK kind \in Kinds : OnPacket(kind)
        BY <2>2 DEF HandleNothing, HandleCodec, Kinds
      <3> QED
        BY <1>1, <3>1, OnPacketFrame, AskedNext
    <2>3. CASE InsertDecoder \/ MakePlayer \/ InsertPlayer
      BY <2>3 DEF InsertDecoder, MakePlayer, InsertPlayer, frameVars, Current
    <2> QED
      BY <2>1, <2>2, <2>3
  <1> QED
    BY <1>2, <1>3, ReadOrder

LEMMA HandleChunkOrder == ASSUME PlayerInv, OrderInv, HandleChunk PROVE OrderInv'
  <1>1. FrameInv
    BY TypesSplit
  <1>2. OnPacket("chunk") /\ "chunk" \in Kinds
    BY DEF HandleChunk, Kinds
  <1> SUFFICES ASSUME ~torn', Alive
               PROVE  OrderInv'
    BY DEF OrderInv, HandleChunk, SendFails
  <1>3. ~torn /\ main = "tick" /\ Received = Current /\ Current' = Current + 1
    BY <1>1, <1>2, OnPacketFrame, AskedNext DEF HandleChunk
  <1>4. PICK chunk : /\ queue' = Append(queue, chunk) /\ chunk.id = Current
                     /\ chunk \in Chunks
    <2>1. PICK due \in now .. MAX_TIME :
              queue' = Append(queue, [id |-> Received, gen |-> Gen(Received), due |-> due])
      BY DEF HandleChunk, Queued
    <2>2. OtherTypes
      BY TypesSplit
    <2>3. Received \in 0 .. Len(sent) /\ Len(sent) \in Nat
      BY <1>1, <1>2, OnPacketFrame, FrameFacts
    <2>4. Gen(Received) \in 0 .. Received
      BY <2>3, GenType
    <2>5. [id |-> Received, gen |-> Gen(Received), due |-> due] \in Chunks
      <3>1. Gen(Received) \in 0 .. Len(sent)
        BY <2>3, <2>4
      <3>2. due \in 0 .. MAX_TIME
        BY <2>2 DEF OtherTypes
      <3> QED
        BY <2>3, <3>1, <3>2 DEF Chunks
    <2> QED
      BY <1>3, <2>1, <2>5
  <1>5. \A i \in DOMAIN queue' :
            \/ i \in DOMAIN queue /\ queue'[i] = queue[i]
            \/ i = Len(queue) + 1 /\ queue'[i] = chunk
    BY <1>4, OrderTypes, AppendProperties
  <1>6. UNCHANGED <<played, job, thread>>
    BY DEF HandleChunk, threadVars
  <1>7. \A i \in DOMAIN queue' : /\ played.id < queue'[i].id /\ job.id < queue'[i].id
                                 /\ queue'[i].id < Current'
    BY <1>3, <1>4, <1>5, OrderTypes DEF OrderInv
  <1>8. ASSUME NEW i \in DOMAIN queue', NEW j \in DOMAIN queue', i < j
        PROVE  queue'[i].id < queue'[j].id
    <2>1. i \in DOMAIN queue /\ queue'[i] = queue[i]
      BY <1>4, <1>5, <1>8, OrderTypes, AppendProperties
    <2>2. CASE j \in DOMAIN queue /\ queue'[j] = queue[j]
      BY <1>3, <1>8, <2>1, <2>2 DEF OrderInv
    <2>3. CASE queue'[j] = chunk
      BY <1>3, <1>4, <2>1, <2>3 DEF OrderInv
    <2> QED
      BY <1>5, <2>2, <2>3
  <1>9. /\ played.id < Current' /\ job.id < Current'
        /\ thread \in {"sleep", "decoder", "play"} => played.id < job.id
    BY <1>3, OrderTypes DEF OrderInv
  <1> QED
    BY <1>6, <1>7, <1>8, <1>9 DEF OrderInv

LEMMA TakeOrder == ASSUME PlayerInv, OrderInv, Take PROVE OrderInv'
  <1>1. /\ UNCHANGED <<torn, main, played>> /\ Current' = Current /\ main # "ended"
        /\ thread = "recv" /\ queue' = Tail(queue) /\ queue # <<>>
    BY DEF Take, frameVars, mainVars, Current
  <1> SUFFICES ASSUME ~torn
               PROVE  OrderInv'
    BY <1>1 DEF OrderInv
  <1>2. /\ Head(queue) = queue[1] /\ 1 \in DOMAIN queue
        /\ \A i \in DOMAIN queue' : /\ i \in Nat \ {0} /\ i + 1 \in DOMAIN queue
                                    /\ queue'[i] = queue[i + 1]
    BY <1>1, OrderTypes, HeadTailProperties
  <1>3. /\ \A i \in DOMAIN queue' : /\ played.id < queue'[i].id /\ job.id < queue'[i].id
                                    /\ queue'[i].id < Current
                                    /\ Head(queue).id < queue'[i].id
        /\ \A i, j \in DOMAIN queue' : i < j => queue'[i].id < queue'[j].id
    BY <1>1, <1>2 DEF OrderInv
  <1>4. /\ played.id < Head(queue).id /\ Head(queue).id < Current /\ played.id < Current
        /\ job.id < Current
    BY <1>1, <1>2 DEF OrderInv
  <1>5. \/ job' = job /\ thread' = "recv"
        \/ job' = Head(queue)
    BY <1>1 DEF Take
  <1> QED
    BY <1>1, <1>3, <1>4, <1>5 DEF OrderInv

\* The other steps of the player thread, the clock's, and those that end main.
LEMMA ThreadOrder ==
    ASSUME PlayerInv, OrderInv,
           \/ LockDecoder \/ LockPlayer \/ StartWrite \/ FinishWrite \/ Panic
           \/ TimePasses \/ Fails \/ MakePlayerFails \/ UNCHANGED vars
    PROVE  OrderInv'
  <1>1. CASE LockDecoder \/ LockPlayer \/ FinishWrite
    <2>1. /\ UNCHANGED <<torn, main, played, queue>> /\ Current' = Current
          /\ main # "ended"
      BY <1>1 DEF LockDecoder, LockPlayer, FinishWrite, frameVars, mainVars, sharedVars, Current
    <2>2. \/ thread' = "recv" /\ job' = NoJob
          \/ job' = job /\ thread \in {"sleep", "decoder", "play"}
      BY <1>1 DEF LockDecoder, LockPlayer, FinishWrite, Iterated
    <2>3. ASSUME ~torn
          PROVE  /\ NoJob.id < Current
                 /\ \A i \in DOMAIN queue : NoJob.id < queue[i].id
      BY <2>1, <2>3, OrderTypes DEF OrderInv, NoJob, None
    <2> QED
      BY <2>1, <2>2, <2>3 DEF OrderInv
  <1>2. CASE StartWrite
    <2>1. /\ UNCHANGED <<torn, main, job, queue>> /\ Current' = Current
          /\ main # "ended" /\ thread = "play" /\ thread' = "write" /\ played'.id = job.id
      BY <1>2 DEF StartWrite, frameVars, mainVars, sharedVars, Current
    <2> QED
      BY <2>1 DEF OrderInv
  <1>3. CASE Panic
    <2>1. /\ UNCHANGED <<torn, main, job, played>> /\ Current' = Current
          /\ queue' = <<>> /\ thread' = "dead"
      BY <1>3 DEF Panic, frameVars, mainVars, Current
    <2> QED
      BY <2>1 DEF OrderInv
  <1>4. CASE TimePasses \/ UNCHANGED vars
    BY <1>4 DEF TimePasses, vars, frameVars, mainVars, sharedVars, threadVars, Current, OrderInv
  <1>5. CASE Fails \/ MakePlayerFails
    BY <1>5 DEF Fails, MakePlayerFails, OrderInv
  <1> QED
    BY <1>1, <1>2, <1>3, <1>4, <1>5

LEMMA OrderInvariant == Spec => []OrderInv
  <1>1. Init => OrderInv
    <2> SUFFICES ASSUME Init
                 PROVE  OrderInv
      OBVIOUS
    <2>1. Current = 1
      BY DEF Init, FrameInit, Current
    <2> QED
      BY <2>1 DEF Init, OrderInv, NoJob, None
  <1>2. PlayerInv /\ OrderInv /\ [Next]_vars => OrderInv'
    BY MainOrder, HandleChunkOrder, TakeOrder, ThreadOrder DEF Next
  <1> QED
    BY <1>1, <1>2, PlayerInvariant, PTL DEF Spec

\* Chunks reach the player in the order in which the server sent them, through the queue
\* and past every codec change, as long as the stream is in step.
THEOREM PlayedInOrderCorrect == Spec => PlayedInOrder
  <1>1. PlayerInv /\ OrderInv /\ [Next]_vars
            => [played' # played => torn \/ played'.id > played.id]_vars
    <2> SUFFICES ASSUME PlayerInv, OrderInv, [Next]_vars, played' # played, ~torn
                 PROVE  played'.id > played.id
      OBVIOUS
    <2>1. StartWrite
      BY PlayedByStartWrite
    <2>2. played'.id = job.id /\ played.id < job.id
      BY <2>1 DEF StartWrite, OrderInv
    <2> QED
      BY <2>2, OrderTypes
  <1> QED
    BY <1>1, PlayerInvariant, OrderInvariant, PTL DEF Spec, PlayedInOrder

-----------------------------------------------------------------------------
\* The process from its start.

\* Until discover has returned and the connection is made main has not begun.
StartInv ==
    /\ asking \in {"recv", "found", "none", "error", "over"}
    /\ asking # "over" => main = "tick"

LEMMA InitStart == ProcessInit => StartInv
  BY DEF ProcessInit, StartInv, Init, D!Init

LEMMA StartStep == StartInv /\ [ProcessNext]_processVars => StartInv'
  <1> SUFFICES ASSUME StartInv, [ProcessNext]_processVars
               PROVE  StartInv'
    OBVIOUS
  <1>1. CASE Discover
    <2>1. asking' \in {"recv", "found", "none", "error"} /\ asking = "recv"
      BY <1>1 DEF Discover, D!Next, D!Datagram, D!Again, D!RecvTimesOut, D!RecvFails, D!Elapse
    <2> QED
      BY <1>1, <2>1 DEF Discover, StartInv, vars, mainVars
  <1>2. CASE Connect \/ GivesUp
    BY <1>2 DEF Connect, GivesUp, Over, StartInv
  <1>3. CASE Run \/ UNCHANGED processVars
    BY <1>3 DEF Run, StartInv, processVars, startVars, vars, mainVars
  <1> QED
    BY <1>1, <1>2, <1>3 DEF ProcessNext

\* The process does what PlayerClient does, after its start, and what ends it before that
\* is one more way for main to fail: all that holds of the two threads holds of a client
\* that discovers its server.
THEOREM ProcessImplementsPlayer == ProcessSpec => Spec
  <1>1. ProcessInit => Init
    BY DEF ProcessInit
  <1>2. StartInv /\ [ProcessNext]_processVars => [Next]_vars
    <2> SUFFICES ASSUME StartInv, [ProcessNext]_processVars
                 PROVE  [Next]_vars
      OBVIOUS
    <2>1. CASE Discover \/ Connect \/ UNCHANGED processVars
      BY <2>1 DEF Discover, Connect, processVars
    <2>2. CASE GivesUp
      <3>1. Fails
        BY <2>2 DEF GivesUp, Fails, StartInv
      <3> QED
        BY <3>1 DEF Next
    <2>3. CASE Run
      BY <2>3 DEF Run
    <2> QED
      BY <2>1, <2>2, <2>3 DEF ProcessNext
  <1> QED
    BY <1>1, <1>2, InitStart, StartStep, PTL DEF ProcessSpec, Spec

\* In particular what was proved of the reader, the chunk written last, the order of the
\* chunks and a dead player thread.
THEOREM ProcessKeepsPlayer ==
    ProcessSpec => /\ [](InStep /\ NeverBehind /\ DeadInv)
                   /\ PlayedInOrder /\ NeverEarly
  BY ProcessImplementsPlayer, InStepCorrect, NeverEarlyCorrect, NeverBehindCorrect,
     PlayedInOrderCorrect, DeadPlayerReadsNothing, PTL

-----------------------------------------------------------------------------
\* Discovery.

\* What discover knows between two steps.
DiscoverInv ==
    /\ clock \in Nat /\ since \in Nat
    /\ since < TIMEOUT /\ clock <= since + TIMEOUT /\ clock < 2 * TIMEOUT
    /\ asking = "found" =>
          read \in ANSWERS /\ server = D!Parse(read) /\ server # D!NoServer

LEMMA GreatestOfInterval ==
    ASSUME NEW a \in Int, NEW b \in Int, NEW S \in SUBSET (a .. b), S # {}
    PROVE  \E i \in S : \A j \in S : j <= i
  <1> DEFINE below == {b - i : i \in S}
  <1>1. below \in SUBSET Nat /\ below # {}
    <2>1. \A i \in S : i \in Int /\ i <= b
      OBVIOUS
    <2>2. \A i \in S : b - i \in Nat
      BY <2>1
    <2> QED
      BY <2>2
  <1>2. PICK x \in below : \A y \in below : x <= y
    BY <1>1, LeastNatural
  <1>3. PICK i \in S : x = b - i
    OBVIOUS
  <1>4. ASSUME NEW j \in S
        PROVE  j <= i
    <2>1. b - j \in below /\ b - i <= b - j
      BY <1>2, <1>3
    <2> QED
      BY <2>1
  <1> QED
    BY <1>4

\* What LastOf finds is the host of a record of that type.
LEMMA LastOfFound ==
    ASSUME ProcessAssumption, NEW r \in ANSWERS, NEW type, D!LastOf(r, type) # D!Absent
    PROVE  \E i \in 1 .. r.questions + r.records :
               /\ r.body[i].type = type /\ r.body[i].fits
               /\ r.body[i].host = D!LastOf(r, type)
  <1> DEFINE at == {i \in r.questions + 1 .. r.questions + r.records :
                        r.body[i].type = type /\ r.body[i].fits}
  <1>1. r.questions \in Nat /\ r.records \in Nat
    BY DEF ProcessAssumption, D!DiscoveryAssumption
  <1>2. D!LastOf(r, type) = IF at = {} THEN D!Absent
                            ELSE r.body[CHOOSE i \in at : \A j \in at : j <= i].host
    BY SMTT(30) DEF D!LastOf
  <1>3. at # {} /\ at \in SUBSET (r.questions + 1 .. r.questions + r.records)
    BY <1>2
  <1>4. \E i \in at : \A j \in at : j <= i
    <2>1. r.questions + 1 \in Int /\ r.questions + r.records \in Int
      BY <1>1
    <2> HIDE DEF at
    <2> QED
      BY <1>3, <2>1, GreatestOfInterval
  <1> DEFINE last == CHOOSE i \in at : \A j \in at : j <= i
  <1>5. last \in at
    BY <1>4, Zenon
  <1>6. D!LastOf(r, type) = r.body[last].host
    BY <1>2, <1>3
  <1> HIDE DEF last
  <1>7. /\ last \in 1 .. r.questions + r.records
        /\ r.body[last].type = type /\ r.body[last].fits
    BY <1>1, <1>5
  <1> QED
    BY <1>6, <1>7

LEMMA InitDiscover == ProcessInit => DiscoverInv
  <1>1. TIMEOUT \in Nat \ {0}
    BY ProcessAssumption DEF D!DiscoveryAssumption
  <1>2. ProcessInit => clock = 0 /\ since = 0 /\ asking # "found"
    BY DEF ProcessInit, D!Init
  <1> QED
    BY <1>1, <1>2 DEF DiscoverInv

LEMMA DiscoverStep == DiscoverInv /\ [ProcessNext]_processVars => DiscoverInv'
  <1> SUFFICES ASSUME DiscoverInv, [ProcessNext]_processVars
               PROVE  DiscoverInv'
    OBVIOUS
  <1>1. TIMEOUT \in Nat \ {0}
    BY ProcessAssumption DEF D!DiscoveryAssumption
  <1>2. CASE \E r \in ANSWERS : D!Datagram(r)
    <2>1. PICK r \in ANSWERS : D!Datagram(r)
      BY <1>2
    <2>2. CASE server' = D!NoServer
      BY <1>1, <2>1, <2>2 DEF D!Datagram, D!Again, DiscoverInv
    <2>3. CASE server' # D!NoServer
      <3>1. read' = r /\ server' = D!Parse(r) /\ UNCHANGED <<clock, since>>
        BY <2>1, <2>3 DEF D!Datagram
      <3> QED
        BY <2>3, <3>1 DEF DiscoverInv
    <2> QED
      BY <2>2, <2>3
  <1>3. CASE D!RecvTimesOut \/ D!RecvFails
    BY <1>3 DEF D!RecvTimesOut, D!RecvFails, DiscoverInv
  <1>4. CASE D!Elapse
    <2>1. asking' = "recv" /\ UNCHANGED since /\ clock' = clock + 1 /\ clock < since + TIMEOUT
      BY <1>4 DEF D!Elapse
    <2> QED
      BY <1>1, <2>1 DEF DiscoverInv
  <1>5. CASE Connect \/ GivesUp
    BY <1>1, <1>5 DEF Connect, GivesUp, Over, DiscoverInv
  <1>6. CASE Run \/ UNCHANGED processVars
    <2>1. UNCHANGED <<asking, clock, since, server, read>>
      BY <1>6 DEF Run, processVars, startVars
    <2> QED
      BY <2>1 DEF DiscoverInv
  <1> QED
    BY <1>2, <1>3, <1>4, <1>5, <1>6 DEF ProcessNext, Discover, D!Next

LEMMA DiscoverInvariant == ProcessSpec => []DiscoverInv
  BY InitDiscover, DiscoverStep, PTL DEF ProcessSpec

\* discover returns before twice its timeout, however many useless datagrams arrive: a
\* read that begins before the deadline ends one timeout later at most.
THEOREM ReturnsInTimeCorrect == ProcessSpec => []ReturnsInTime
  <1>1. DiscoverInv => ReturnsInTime
    BY DEF DiscoverInv, ReturnsInTime, D!ReturnsInTime
  <1> QED
    BY <1>1, DiscoverInvariant, PTL

\* The address and the port that parse_response returns are records of the datagram just
\* read, which is all there, whatever came before it.
THEOREM FromOneAnswerCorrect == ProcessSpec => []FromOneAnswer
  <1>1. ASSUME DiscoverInv, asking = "found"
        PROVE  /\ read \in ANSWERS /\ D!Whole(read)
               /\ \E i, j \in 1 .. read.questions + read.records :
                     /\ read.body[i].type = "A" /\ read.body[i].fits
                     /\ read.body[i].host = server.ip
                     /\ read.body[j].type = "SRV" /\ read.body[j].fits
                     /\ read.body[j].host = server.port
    <2>1. read \in ANSWERS /\ server = D!Parse(read) /\ server # D!NoServer
      BY <1>1 DEF DiscoverInv
    <2>2. /\ D!Whole(read)
          /\ D!LastOf(read, "A") # D!Absent /\ D!LastOf(read, "SRV") # D!Absent
          /\ server = [ip |-> D!LastOf(read, "A"), port |-> D!LastOf(read, "SRV")]
      BY <2>1 DEF D!Parse
    <2>3. server.ip = D!LastOf(read, "A") /\ server.port = D!LastOf(read, "SRV")
      BY <2>2
    <2>4. PICK i \in 1 .. read.questions + read.records :
              /\ read.body[i].type = "A" /\ read.body[i].fits
              /\ read.body[i].host = D!LastOf(read, "A")
      BY <2>1, <2>2, LastOfFound, ProcessAssumption
    <2>5. PICK j \in 1 .. read.questions + read.records :
              /\ read.body[j].type = "SRV" /\ read.body[j].fits
              /\ read.body[j].host = D!LastOf(read, "SRV")
      BY <2>1, <2>2, LastOfFound, ProcessAssumption
    <2> QED
      BY <2>1, <2>2, <2>3, <2>4, <2>5
  <1>2. DiscoverInv => FromOneAnswer
    BY <1>1 DEF FromOneAnswer, D!FromOneAnswer
  <1> QED
    BY <1>2, DiscoverInvariant, PTL

=============================================================================
