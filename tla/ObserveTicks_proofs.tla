-------------------------- MODULE ObserveTicks_proofs --------------------------
(***************************************************************************)
(* Proofs about ObserveTicks for any sessions, ticks, assets and restarts. *)
(***************************************************************************)
EXTENDS ObserveTicks, TLAPS

USE DEF tickVars

\* A tick and a saved state are told from none.
LEMMA Nones ==
  /\ NoTicks \notin Ticks
  /\ NoState \notin States
<1>1. NoTicks \notin Ticks
  BY DEF NoTicks, Ticks
<1>2. NoState \notin States
  BY DEF NoState, States
<1>3. QED
  BY <1>1, <1>2

\* What is published when a tick is due.
LEMMA TickType ==
  ASSUME TickTypeOK, Due
  PROVE  /\ Tick \in Ticks
         /\ Delta \in Nat \union {NoDelta}
         /\ Tick.delta = Delta /\ Tick.boot = boot
         /\ Delta # NoDelta => assets <= tickState.counts + Delta
<1> USE DEF TickTypeOK
<1>1. asked.session \in TickSessions
  BY DEF Due, Asked, NoTick
<1>2. tickState.index \in Nat /\ tickState.counts \in Nat
  BY TickAssumption DEF NoState, States
<1>3. /\ Delta \in Nat \union {NoDelta}
      /\ Delta # NoDelta => assets <= tickState.counts + Delta
  BY <1>2, TickAssumption DEF Delta, NoDelta
<1>4. Delta \in Int
  BY <1>3 DEF NoDelta
<1>5. boot \in 1 .. MaxBoots
  BY TickAssumption
<1>6. Tick \in Ticks
  BY <1>1, <1>2, <1>4, <1>5 DEF Tick, Ticks
<1>7. Tick.delta = Delta /\ Tick.boot = boot
  BY DEF Tick
<1>8. QED
  BY <1>3, <1>6, <1>7

LEMMA TypeInit == TickInit => TickTypeOK
<1> SUFFICES ASSUME TickInit PROVE TickTypeOK
  OBVIOUS
<1> USE DEF TickInit
<1>1. asked \in Asked
  BY DEF Asked
<1>2. assets \in 0 .. MaxAssets /\ counted \in 0 .. MaxAssets
  BY TickAssumption
<1>3. boots \in 1 .. MaxBoots /\ boot \in 1 .. boots
  BY TickAssumption
<1>4. tries \in 0 .. MaxTicks /\ arrivals \in 0 .. 2 * tries
  BY TickAssumption
<1>5. QED
  BY <1>1, <1>2, <1>3, <1>4 DEF TickTypeOK

LEMMA TypeNext == TickTypeOK /\ [TickNext]_tickVars => TickTypeOK'
<1> SUFFICES ASSUME TickTypeOK, [TickNext]_tickVars PROVE TickTypeOK'
  OBVIOUS
<1> USE DEF TickTypeOK
<1>1. CASE UNCHANGED tickVars
  BY <1>1
<1>2. CASE ChangeAsked
  BY <1>2 DEF ChangeAsked
<1>3. CASE ChangeAssets
  BY <1>3 DEF ChangeAssets
<1>4. CASE PublishTick
  <2>1. Tick \in Ticks /\ Delta \in Nat \union {NoDelta}
    BY <1>4, TickType DEF PublishTick
  <2>2. reported' \in Nat
    BY <1>4, <2>1 DEF PublishTick, TickArrives, NoDelta
  <2>3. tries' \in 0 .. MaxTicks /\ arrivals' \in 0 .. 2 * tries'
    BY <1>4, TickAssumption DEF PublishTick, TickArrives, Due
  <2>4. QED
    BY <1>4, <2>1, <2>2, <2>3 DEF PublishTick, TickArrives
<1>5. CASE TickFails
  <2>1. Tick \in Ticks /\ Delta \in Nat \union {NoDelta}
    BY <1>5, TickType DEF TickFails
  <2>2. reported' \in Nat
    BY <1>5, <2>1 DEF TickFails, TickArrives, NoDelta
  <2>3. tries' \in 0 .. MaxTicks /\ arrivals' \in 0 .. 2 * tries'
    BY <1>5, TickAssumption DEF TickFails, TickArrives, Due
  <2>4. QED
    BY <1>5, <2>1, <2>2, <2>3 DEF TickFails, TickArrives
<1>9. CASE ResendTick
  <2>1. received' \in Ticks /\ arrivals' \in 0 .. 2 * tries
    BY <1>9, TickAssumption DEF ResendTick
  <2>2. QED
    BY <1>9, <2>1 DEF ResendTick
<1>6. CASE SaveTick
  <2>1. confirmed \in Ticks /\ boot \in 1 .. MaxBoots
    BY <1>6, TickAssumption DEF SaveTick
  <2>2. tickState' \in States
    BY <1>6, <2>1, TickAssumption DEF SaveTick, Ticks, States
  <2>3. unseen' \in Nat
    BY <1>6, TickAssumption DEF SaveTick
  <2>4. /\ confirmed' = NoTicks /\ counted' \in 0 .. MaxAssets /\ doubtful' = FALSE
        /\ UNCHANGED <<asked, assets, boot, boots, tries, received, arrivals, reported, setBack>>
    BY <1>6, TickAssumption DEF SaveTick
  <2>5. QED
    BY <2>2, <2>3, <2>4
<1>7. CASE RestartAgent
  <2>1. boots' \in 1 .. MaxBoots /\ boot' \in 1 .. boots'
    BY <1>7, TickAssumption DEF RestartAgent
  <2>2. tickState' = tickState \/ tickState' = NoState
    BY <1>7 DEF RestartAgent
  <2>3. setBack' \in BOOLEAN
    BY <1>7 DEF RestartAgent
  <2>4. QED
    BY <1>7, <2>1, <2>2, <2>3, TickAssumption DEF RestartAgent
<1>8. QED
  BY <1>1, <1>2, <1>3, <1>4, <1>5, <1>6, <1>7, <1>9 DEF TickNext

\* Ticks, state and counts are well typed in every reachable state.
THEOREM TickTypeCorrect == TickSpec => []TickTypeOK
BY TypeInit, TypeNext, PTL DEF TickSpec

-----------------------------------------------------------------------------
\* Deltas.  The assets a tick on its way to the state file was computed from have
\* been reported, too.
DeltaInv ==
  /\ DeltasAddUp
  /\ confirmed # NoTicks /\ confirmed.delta # NoDelta => counted <= reported + unseen

LEMMA LargerSum ==
  \A a, b, c, d \in Nat : a <= b + c /\ d >= b => a <= d + c
OBVIOUS

LEMMA DeltaInit == TickInit => DeltaInv
BY DEF TickInit, DeltaInv, DeltasAddUp, NoState

LEMMA DeltaNext == TickTypeOK /\ DeltaInv /\ [TickNext]_tickVars => DeltaInv'
<1> SUFFICES ASSUME TickTypeOK, DeltaInv, [TickNext]_tickVars PROVE DeltaInv'
  OBVIOUS
<1> USE DEF DeltaInv, DeltasAddUp
<1>0. /\ assets \in Nat /\ counted \in Nat /\ reported \in Nat /\ unseen \in Nat
      /\ tickState.counts \in Nat
  BY TickAssumption DEF TickTypeOK, NoState, States
<1>1. CASE UNCHANGED tickVars
  BY <1>1
<1>2. CASE ChangeAsked \/ ChangeAssets \/ ResendTick
  BY <1>2 DEF ChangeAsked, ChangeAssets, ResendTick
<1>3. CASE PublishTick
  <2>1. /\ Delta \in Nat \union {NoDelta}
        /\ Tick.delta = Delta
        /\ Delta # NoDelta => assets <= tickState.counts + Delta
    BY <1>3, TickType DEF PublishTick
  <2>2. /\ confirmed' = Tick /\ counted' = assets /\ unseen' = unseen /\ tickState' = tickState
        /\ reported' = reported + (IF Delta > 0 THEN Delta ELSE 0)
    BY <1>3 DEF PublishTick, TickArrives
  <2>3. reported' \in Nat /\ reported' >= reported
    BY <1>0, <2>1, <2>2 DEF NoDelta
  <2>4. Delta # NoDelta => reported' = reported + Delta
    BY <1>0, <2>1, <2>2 DEF NoDelta
  <2>5. Delta # NoDelta => assets <= reported' + unseen
    BY <1>0, <2>1, <2>4
  <2>6. tickState.counts <= reported' + unseen
    BY <1>0, <2>3
  <2>7. QED
    BY <2>1, <2>2, <2>5, <2>6
<1>4. CASE TickFails
  <2>1. Delta \in Nat \union {NoDelta}
    BY <1>4, TickType DEF TickFails
  <2>2. reported' \in Nat /\ reported' >= reported
    BY <1>0, <1>4, <2>1 DEF TickFails, TickArrives, NoDelta
  <2>3. UNCHANGED <<confirmed, counted, unseen, tickState>>
    BY <1>4 DEF TickFails
  <2>4. tickState.counts <= reported' + unseen
    BY <1>0, <2>2
  <2>5. counted <= reported + unseen => counted <= reported' + unseen
    BY <1>0, <2>2, LargerSum
  <2>6. QED
    BY <2>3, <2>4, <2>5
<1>5. CASE SaveTick
  <2> DEFINE counts == IF confirmed.delta = NoDelta THEN 0 ELSE assets
  <2>1. /\ confirmed # NoTicks /\ confirmed' = NoTicks /\ reported' = reported
        /\ tickState'.counts = counts
        /\ unseen' = unseen + (IF counts > counted THEN counts - counted ELSE 0)
    BY <1>5 DEF SaveTick
  <2>2. counts <= reported + unseen'
    BY <1>0, <2>1
  <2>3. QED
    BY <2>1, <2>2
<1>6. CASE RestartAgent
  <2>1. /\ confirmed' = NoTicks /\ UNCHANGED <<reported, unseen>>
        /\ tickState' = tickState \/ tickState' = NoState
    BY <1>6 DEF RestartAgent
  <2>2. NoState.counts <= reported + unseen
    BY <1>0 DEF NoState
  <2>3. QED
    BY <2>1, <2>2
<1>7. QED
  BY <1>1, <1>2, <1>3, <1>4, <1>5, <1>6 DEF TickNext

\* DeltasAddUp: every asset the state file counts has been in a delta the portal
\* received, or came between the count of a tick and its save.
THEOREM DeltasCorrect == TickSpec => []DeltasAddUp
<1>1. DeltaInv => DeltasAddUp
  BY DEF DeltaInv
<1>2. QED
  BY <1>1, DeltaInit, DeltaNext, TickTypeCorrect, PTL DEF TickSpec

-----------------------------------------------------------------------------
\* Continuity.  The tick being saved is the last the portal has received; a saved
\* one of this start of the agent is, too, unless one wrongly reported as failed
\* came after it or the host has been restarted.  No start has a later boot ID.
ContinuityInv ==
  /\ confirmed # NoTicks => received = confirmed /\ confirmed.boot = boot
  /\ ~setBack => boot = boots
  /\ tickState # NoState => tickState.boot <= boots
  /\ ~doubtful /\ ~setBack /\ tickState # NoState /\ tickState.boot = boot /\ confirmed = NoTicks =>
       /\ received # NoTicks
       /\ received.session = tickState.session
       /\ received.boot = boot
       /\ received.index = tickState.index

LEMMA ContinuityInit == TickInit => ContinuityInv
BY DEF TickInit, ContinuityInv

LEMMA ContinuityNext == TickTypeOK /\ ContinuityInv /\ [TickNext]_tickVars => ContinuityInv'
<1> SUFFICES ASSUME TickTypeOK, ContinuityInv, [TickNext]_tickVars PROVE ContinuityInv'
  OBVIOUS
<1> USE DEF ContinuityInv
<1>1. CASE UNCHANGED tickVars
  BY <1>1
<1>2. CASE ChangeAsked \/ ChangeAssets \/ ResendTick
  BY <1>2 DEF ChangeAsked, ChangeAssets, ResendTick
<1>3. CASE PublishTick
  <2>1. Tick \in Ticks /\ Tick.boot = boot
    BY <1>3, TickType DEF PublishTick
  <2>2. /\ confirmed' = Tick /\ received' = Tick
        /\ UNCHANGED <<boot, boots, tickState, doubtful, setBack>>
    BY <1>3 DEF PublishTick, TickArrives
  <2>3. QED
    BY <2>1, <2>2, Nones
<1>4. CASE TickFails
  <2>1. /\ confirmed = NoTicks /\ UNCHANGED <<confirmed, boot, boots, tickState, setBack>>
        /\ doubtful' = TRUE \/ UNCHANGED <<received, doubtful>>
    BY <1>4 DEF TickFails, Due
  <2>2. QED
    BY <2>1
<1>5. CASE SaveTick
  <2>1. /\ confirmed \in Ticks /\ confirmed # NoTicks /\ received = confirmed
        /\ confirmed.boot = boot /\ boot <= boots
    BY <1>5 DEF SaveTick, TickTypeOK
  <2>2. /\ tickState'.session = confirmed.session /\ tickState'.index = confirmed.index
        /\ tickState'.boot = boot
        /\ confirmed' = NoTicks /\ UNCHANGED <<boot, boots, received, setBack>>
    BY <1>5 DEF SaveTick
  <2>3. QED
    BY <2>1, <2>2
<1>6. CASE RestartAgent
  <2>1. boots \in Nat /\ boots' = boots + 1 /\ confirmed' = NoTicks
    BY <1>6 DEF RestartAgent, TickTypeOK
  <2>2. boot' = boots + 1 \/ setBack' = TRUE
    BY <1>6 DEF RestartAgent
  <2>3. tickState' = tickState \/ tickState' = NoState
    BY <1>6 DEF RestartAgent
  <2>4. tickState' # NoState => tickState'.boot \in Nat /\ tickState'.boot <= boots
    BY <2>3, TickAssumption DEF TickTypeOK, States
  <2>5. ~setBack' => (tickState' # NoState => tickState'.boot # boot')
    BY <2>1, <2>2, <2>4
  <2>6. QED
    BY <2>1, <2>2, <2>4, <2>5
<1>7. QED
  BY <1>1, <1>2, <1>3, <1>4, <1>5, <1>6 DEF TickNext

\* TickContinuity: a tick marked "ok" follows, in the order of arrival, the tick
\* of the same session and start of the agent with the index before, or repeats the
\* last one within its own attempt.
THEOREM ContinuityCorrect == TickSpec => TickContinuity
<1> DEFINE Follows ==
      /\ received # NoTicks
      /\ received.session = received'.session
      /\ received.boot = received'.boot
      /\ received'.index = received.index + 1
<1>1. TickTypeOK /\ ContinuityInv /\ [TickNext]_tickVars =>
        [arrivals' # arrivals /\ received'.continuity = "ok" /\ ~doubtful /\ ~setBack =>
           IF tries' = tries THEN received' = received ELSE Follows]_tickVars
  <2> SUFFICES ASSUME TickTypeOK, ContinuityInv, TickNext,
                      arrivals' # arrivals, received'.continuity = "ok", ~doubtful, ~setBack
               PROVE  IF tries' = tries THEN received' = received ELSE Follows
    OBVIOUS
  <2>1. PublishTick \/ TickFails \/ ResendTick
    BY DEF TickNext, ChangeAsked, ChangeAssets, SaveTick, RestartAgent
  <2>2. CASE ResendTick
    BY <2>2 DEF ResendTick, ContinuityInv
  <2>3. CASE PublishTick \/ TickFails
    <3>1. received' = Tick /\ confirmed = NoTicks /\ tries' # tries
      BY <2>3 DEF PublishTick, TickFails, TickArrives, Due, TickTypeOK
    <3>2. /\ Tick.continuity = "ok" => Continues
          /\ Tick.session = asked.session /\ Tick.boot = boot /\ Tick.index = tickState.index + 1
      BY DEF Tick
    <3>3. Continues
      BY <3>1, <3>2
    <3>4. Follows
      BY <3>1, <3>2, <3>3 DEF Continues, ContinuityInv
    <3>5. QED
      BY <3>1, <3>4
  <2>4. QED
    BY <2>1, <2>2, <2>3
<1>2. QED
  BY <1>1, ContinuityInit, ContinuityNext, TickTypeCorrect, PTL DEF TickSpec, TickContinuity
=============================================================================
