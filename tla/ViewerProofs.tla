----------------------------- MODULE ViewerProofs -----------------------------
(***************************************************************************)
(* What the window of the desktop application never gets wrong, for any    *)
(* number of addresses, ClassCaches, archives and overlapping ticks.       *)
(* The argument: a tick whose loop is alive was begun under the settings   *)
(* the loop was begun with, and what the loop has reported is what is      *)
(* shown, or nothing.                                                      *)
(***************************************************************************)
EXTENDS Viewer, TLAPS

USE DEF Unlisted

OwnTicks == \A s \in Slot : ticks[s] # NoTick /\ ticks[s].alive => ticks[s].at = polled

ReportedIsShown ==
  /\ \A c \in CC : prev.ccs[c] \in {NoPhase, view.ccs[c]}
  /\ prev.peers \in {0, PeerSum(view.archives)}
  /\ view.from = Nobody => prev.peers = 0

IInv == TypeOK /\ OwnTicks /\ OldDataIsFlagged /\ ReportedIsShown /\ LogMatchesView

(* The types that are the same before and after most steps.                *)
WorldType ==
  /\ kubectl \in {"none", "down", "up"} /\ phases \in ClassCaches
  /\ up \subseteq Addr /\ store \in [Addr -> Archives]
DiagnosisType ==
  /\ diag \in Addr \union {NoDiag} /\ timer \in BOOLEAN /\ raced \in BOOLEAN
  /\ diags \subseteq [mount : BOOLEAN, addr : Addr, asked : BOOLEAN, valkey : BOOLEAN]
ShownType ==
  /\ view \in [from : Settings \union {Nobody}, ccs : ClassCaches, archives : Archives]
  /\ error \in BOOLEAN /\ prev \in Reports /\ log \in Reports /\ settled \in BOOLEAN
LoopType ==
  /\ addr \in Addr /\ demo \in BOOLEAN /\ polled \in Settings
  /\ ticks \in [Slot -> TickType \union {NoTick}] /\ events \in 0..MaxEvents

(* The part of the invariant about the view, the log and the banner.       *)
ViewOK == ShownType /\ OldDataIsFlagged /\ ReportedIsShown /\ LogMatchesView

LEMMA InvParts ==
  IInv <=> WorldType /\ DiagnosisType /\ LoopType /\ OwnTicks /\ ViewOK
  BY DEF IInv, TypeOK, WorldType, DiagnosisType, LoopType, ViewOK, ShownType

LEMMA InvPartsNext ==
  IInv' <=> WorldType' /\ DiagnosisType' /\ LoopType' /\ OwnTicks' /\ ViewOK'
  BY DEF IInv, TypeOK, WorldType, DiagnosisType, LoopType, ViewOK, ShownType

LEMMA DemoAnswers == DemoAnswer.ccs \in ClassCaches /\ DemoAnswer.archives \in Archives
  <1>1. (CHOOSE p \in Phase : TRUE) \in Phase
    BY ViewerAssumption
  <1>2. MaxPeers \in {Unlisted} \union 0..MaxPeers
    BY ViewerAssumption
  <1> QED  BY <1>1, <1>2 DEF DemoAnswer, ClassCaches, Archives

LEMMA EmptyReport == NoPrev \in Reports
  BY DEF NoPrev, Reports, ClassCaches, Counts

LEMMA InitHolds == Init => IInv
  <1> SUFFICES ASSUME Init PROVE IInv
    OBVIOUS
  <1>1. WorldType
    BY EmptyReport DEF Init, WorldType, Archives, Reports
  <1>2. DiagnosisType
    <2>1. [mount |-> TRUE, addr |-> FirstAddr, asked |-> FALSE, valkey |-> FALSE]
            \in [mount : BOOLEAN, addr : Addr, asked : BOOLEAN, valkey : BOOLEAN]
      BY ViewerAssumption
    <2> QED  BY <2>1 DEF Init, DiagnosisType
  <1>3. LoopType /\ OwnTicks
    <2>0. addr \in Addr /\ demo \in BOOLEAN
      BY ViewerAssumption DEF Init
    <2>1. events \in 0..MaxEvents
      BY ViewerAssumption DEF Init
    <2>2. polled \in Settings
      BY ViewerAssumption DEF Init, Settings
    <2>3. \A s \in Slot : ticks[s] = NoTick
      BY DEF Init
    <2>4. ticks \in [Slot -> TickType \union {NoTick}]
      BY DEF Init
    <2> QED  BY <2>0, <2>1, <2>2, <2>3, <2>4 DEF LoopType, OwnTicks
  <1>4. ShownType
    BY EmptyReport DEF Init, ShownType, Archives, Reports
  <1>5. OldDataIsFlagged /\ ReportedIsShown
    BY DEF Init, OldDataIsFlagged, ReportedIsShown, NoPrev
  <1>6. LogMatchesView
    <2>1. \A c \in CC : view.ccs[c] = NoPhase
      BY DEF Init, NoPrev
    <2>2. view.from = Nobody
      BY DEF Init
    <2> QED  BY <2>1, <2>2, ViewerAssumption DEF LogMatchesView
  <1> QED  BY <1>1, <1>2, <1>3, <1>4, <1>5, <1>6, InvParts DEF ViewOK

-----------------------------------------------------------------------------
(* The end of a tick, and the end of a loop.                               *)

LEMMA ShowKeeps ==
  ASSUME ViewOK, polled \in Settings, polled' = polled,
         NEW answer, answer.ccs \in ClassCaches, answer.archives \in Archives,
         Show(polled, answer)
  PROVE  ViewOK'
  <1> DEFINE sum == PeerSum(answer.archives)
  <1>1. /\ view' = [from |-> polled, ccs |-> answer.ccs, archives |-> answer.archives]
        /\ prev' = [ccs |-> answer.ccs, peers |-> sum]
        /\ log' = Logged(answer) /\ error' = FALSE /\ settled' = TRUE
    BY DEF Show, Remembered
  <1>2. sum \in Counts
    BY DEF Counts
  <1>3. /\ view.ccs \in ClassCaches /\ log.ccs \in ClassCaches /\ prev.ccs \in ClassCaches
        /\ log.peers \in Counts
    BY DEF ViewOK, ShownType, Reports
  <1>4. Logged(answer).ccs \in ClassCaches
    BY <1>3 DEF Logged, ClassCaches
  <1>5. Logged(answer) \in Reports
    <2>1. Logged(answer).peers \in Counts
      BY <1>2, <1>3 DEF Logged
    <2> QED  BY <1>4, <2>1 DEF Logged, Reports
  <1>6. ShownType'
    <2>1. view' \in [from : Settings \union {Nobody}, ccs : ClassCaches, archives : Archives]
      BY <1>1
    <2>2. prev' \in Reports
      BY <1>1, <1>2 DEF Reports
    <2> QED  BY <1>1, <1>5, <2>1, <2>2 DEF ShownType
  <1>7. OldDataIsFlagged'
    BY <1>1 DEF OldDataIsFlagged
  <1>8. ReportedIsShown'
    BY <1>1, ViewerAssumption DEF ReportedIsShown, Settings
  <1>9. LogMatchesView'
    <2>1. ASSUME NEW c \in CC, {answer.ccs[c], Logged(answer).ccs[c]} \subseteq Phase
          PROVE  Logged(answer).ccs[c] = answer.ccs[c]
      <3>1. Logged(answer).ccs[c] =
              IF answer.ccs[c] \in {NoPhase, prev.ccs[c]} THEN log.ccs[c]
              ELSE IF prev.ccs[c] = NoPhase THEN NoPhase ELSE answer.ccs[c]
        BY DEF Logged
      <3>2. answer.ccs[c] # NoPhase /\ Logged(answer).ccs[c] # NoPhase
        BY <2>1, ViewerAssumption
      <3>3. CASE answer.ccs[c] = prev.ccs[c]
        <4>1. view.ccs[c] = answer.ccs[c]
          BY <3>2, <3>3 DEF ViewOK, ReportedIsShown
        <4> QED  BY <2>1, <3>1, <3>3, <4>1 DEF ViewOK, LogMatchesView
      <3> QED  BY <3>1, <3>2, <3>3
    <2>2. sum # 0 => Logged(answer).peers = sum
      <3>1. CASE sum # prev.peers
        BY <3>1 DEF Logged
      <3>2. CASE sum = prev.peers /\ sum # 0
        <4>1. sum = PeerSum(view.archives)
          BY <3>2 DEF ViewOK, ReportedIsShown
        <4>2. view.from # Nobody
          BY <3>2 DEF ViewOK, ReportedIsShown
        <4> QED  BY <3>2, <4>1, <4>2 DEF Logged, ViewOK, LogMatchesView
      <3> QED  BY <3>1, <3>2
    <2>3. view'.ccs = answer.ccs /\ view'.archives = answer.archives
      BY <1>1
    <2> QED  BY <1>1, <2>1, <2>2, <2>3 DEF LogMatchesView
  <1> QED  BY <1>6, <1>7, <1>8, <1>9 DEF ViewOK

LEMMA EffectsKeep ==
  ASSUME LoopType, ViewOK, NEW a \in Addr, NEW d \in BOOLEAN, Effects(a, d)
  PROVE  /\ ViewOK' /\ OwnTicks' /\ polled' \in Settings
         /\ ticks' \in [Slot -> TickType \union {NoTick}]
  <1>1. polled' \in Settings
    BY DEF Effects, Settings
  <1>2. ASSUME NEW s \in Slot
        PROVE  ticks'[s] \in TickType \union {NoTick} /\ (ticks'[s] # NoTick => ~ticks'[s].alive)
    <2>1. ticks'[s] = IF ticks[s] = NoTick THEN NoTick ELSE [ticks[s] EXCEPT !.alive = FALSE]
      BY DEF Effects
    <2>2. CASE ticks[s] = NoTick
      BY <2>1, <2>2
    <2>3. CASE ticks[s] # NoTick
      <3>1. ticks[s] \in TickType
        BY <2>3 DEF LoopType
      <3> QED  BY <2>1, <2>3, <3>1 DEF TickType
    <2> QED  BY <2>2, <2>3
  <1>3. ticks' \in [Slot -> TickType \union {NoTick}]
    BY <1>2 DEF Effects
  <1>4. OwnTicks'
    BY <1>2 DEF OwnTicks
  <1>5. ViewOK'
    <2>1. UNCHANGED <<view, error, log>> /\ prev' = NoPrev /\ settled' = FALSE
      BY DEF Effects
    <2>2. ShownType'
      BY <2>1, EmptyReport DEF ViewOK, ShownType
    <2>3. ReportedIsShown'
      BY <2>1 DEF ReportedIsShown, NoPrev
    <2> QED  BY <2>1, <2>2, <2>3 DEF ViewOK, OldDataIsFlagged, LogMatchesView
  <1> QED  BY <1>1, <1>3, <1>4, <1>5

(* A slot gets a tick of the same loop with other answers, or is freed.    *)
LEMMA TickKeeps ==
  ASSUME LoopType, OwnTicks, NEW s \in Slot, NEW t \in TickType \union {NoTick},
         t = NoTick \/ (t.alive => t.at = polled),
         ticks' = [ticks EXCEPT ![s] = t], polled' = polled
  PROVE  OwnTicks' /\ ticks' \in [Slot -> TickType \union {NoTick}]
  BY DEF LoopType, OwnTicks

-----------------------------------------------------------------------------
(* The steps.                                                              *)

LEMMA EventCounts == ASSUME LoopType, Event PROVE events' \in 0..MaxEvents
  BY ViewerAssumption DEF LoopType, Event

LEMMA Untouched ==
  /\ WorldType /\ UNCHANGED world => WorldType'
  /\ DiagnosisType /\ UNCHANGED diagnosis => DiagnosisType'
  /\ OwnTicks /\ UNCHANGED <<ticks, polled>> => OwnTicks'
  /\ ViewOK /\ UNCHANGED <<shown, polled>> => ViewOK'
  <1>1. WorldType /\ UNCHANGED world => WorldType'
    BY DEF WorldType, world
  <1>2. DiagnosisType /\ UNCHANGED diagnosis => DiagnosisType'
    BY DEF DiagnosisType, diagnosis
  <1>3. OwnTicks /\ UNCHANGED <<ticks, polled>> => OwnTicks'
    BY DEF OwnTicks
  <1>4. ViewOK /\ UNCHANGED <<shown, polled>> => ViewOK'
    BY DEF ViewOK, ShownType, OldDataIsFlagged, ReportedIsShown, LogMatchesView, shown
  <1> QED  BY <1>1, <1>2, <1>3, <1>4

LEMMA NewTickIsATick ==
  ASSUME LoopType PROVE NewTick \in TickType /\ NewTick.at = polled
  BY EmptyReport DEF LoopType, NewTick, TickType, Settings, Reports, Archives

(* What the backend answers fits the tick that asked.                      *)
LEMMA AnswersFit ==
  ASSUME IInv, NEW s \in Slot,
         ListClassCaches(s) \/ ListKeys(s) \/ \E k \in Key : ListPeers(s, k)
  PROVE  /\ ticks' = [ticks EXCEPT ![s] = ticks'[s]]
         /\ ticks[s] \in TickType /\ ticks[s] # NoTick
         /\ ticks'[s] \in TickType
         /\ ticks'[s].alive = ticks[s].alive /\ ticks'[s].at = ticks[s].at
         /\ UNCHANGED <<world, settings, shown, diagnosis, polled, events>>
  <1> DEFINE t == ticks'[s]
  <1>1. /\ WorldType /\ DiagnosisType /\ LoopType /\ OwnTicks /\ ViewOK
        /\ ticks[s] # NoTick /\ ticks[s] \in TickType
    BY InvParts DEF LoopType, ListClassCaches, ListKeys, ListPeers, Waits
  <1>2. /\ UNCHANGED <<world, settings, shown, diagnosis, polled, events>>
        /\ ticks' = [ticks EXCEPT ![s] = t]
    BY <1>1 DEF ListClassCaches, ListKeys, ListPeers, LoopType
  <1>3. t \in TickType /\ t.alive = ticks[s].alive /\ t.at = ticks[s].at
    <2>1. CASE ListClassCaches(s)
      <3>1. t = [ticks[s] EXCEPT !.ccs = phases, !.pending = @ \ {"classcaches"}]
        BY <1>1, <2>1 DEF ListClassCaches, LoopType
      <3> QED  BY <1>1, <3>1 DEF TickType, WorldType
    <2>2. CASE ListKeys(s)
      <3>1. PICK found : found \subseteq Key /\
              t = [ticks[s] EXCEPT
                !.archives = [k \in Key |-> IF k \in found THEN 0 ELSE Unlisted],
                !.pending = (@ \ {"keys"}) \union found]
        <4>1. Listed(ticks[s].at.addr) \subseteq Key
          BY DEF Listed
        <4> QED  BY <1>1, <2>2, <4>1 DEF ListKeys, LoopType
      <3>2. [k \in Key |-> IF k \in found THEN 0 ELSE Unlisted] \in Archives
        BY ViewerAssumption DEF Archives
      <3> QED  BY <1>1, <3>1, <3>2 DEF TickType
    <2>3. CASE \E k \in Key : ListPeers(s, k)
      <3>1. PICK k \in Key : ListPeers(s, k)
        BY <2>3
      <3>2. PICK n \in 0..MaxPeers :
              t = [ticks[s] EXCEPT !.archives[k] = n, !.pending = @ \ {k}]
        <4>1. ticks[s].at.addr \in Addr
          BY <1>1 DEF TickType, Settings
        <4>2. (IF ticks[s].at.addr \in up THEN Peers(ticks[s].at.addr, k) ELSE 0) \in 0..MaxPeers
          BY <1>1, <3>1, <4>1, ViewerAssumption DEF Peers, WorldType, Archives
        <4> QED  BY <1>1, <3>1, <4>2 DEF ListPeers, LoopType
      <3>3. [ticks[s].archives EXCEPT ![k] = n] \in Archives
        BY <1>1, <3>2 DEF TickType, Archives
      <3>4. t = [ticks[s] EXCEPT !.archives = [ticks[s].archives EXCEPT ![k] = n],
                                 !.pending = @ \ {k}]
        BY <3>2
      <3> QED  BY <1>1, <3>3, <3>4 DEF TickType
    <2> QED  BY <2>1, <2>2, <2>3
  <1> QED  BY <1>1, <1>2, <1>3

LEMMA AnswersKeep ==
  ASSUME IInv, NEW s \in Slot,
         ListClassCaches(s) \/ ListKeys(s) \/ \E k \in Key : ListPeers(s, k)
  PROVE  IInv'
  <1>1. WorldType /\ DiagnosisType /\ LoopType /\ OwnTicks /\ ViewOK
    BY InvParts
  <1>2. PICK t : /\ ticks' = [ticks EXCEPT ![s] = t] /\ t \in TickType
                 /\ ticks[s] # NoTick /\ t.alive = ticks[s].alive /\ t.at = ticks[s].at
                 /\ UNCHANGED <<world, settings, shown, diagnosis, polled, events>>
    BY AnswersFit
  <1>3. t.alive => t.at = polled
    BY <1>1, <1>2 DEF OwnTicks
  <1>4. OwnTicks' /\ ticks' \in [Slot -> TickType \union {NoTick}]
    BY <1>1, <1>2, <1>3, TickKeeps
  <1>5. LoopType'
    BY <1>1, <1>2, <1>4 DEF LoopType, settings
  <1> QED  BY <1>1, <1>2, <1>4, <1>5, Untouched, InvPartsNext

LEMMA TicksKeep ==
  ASSUME IInv, NEW s \in Slot, Tick(s) \/ Fails(s) \/ Answered(s)
  PROVE  IInv'
  <1>1. WorldType /\ DiagnosisType /\ LoopType /\ OwnTicks /\ ViewOK
    BY InvParts
  <1>2. UNCHANGED <<world, settings, diagnosis, polled, events>>
    BY DEF Tick, Fails, Answered, shown
  <1>3. PICK t \in {NewTick, NoTick} : ticks' = [ticks EXCEPT ![s] = t]
    BY DEF Tick, Fails, Answered
  <1>4. OwnTicks' /\ ticks' \in [Slot -> TickType \union {NoTick}]
    BY <1>1, <1>2, <1>3, NewTickIsATick, TickKeeps
  <1>5. LoopType'
    BY <1>1, <1>2, <1>4 DEF LoopType, settings
  <1>6. ViewOK'
    <2>1. CASE UNCHANGED shown
      BY <1>1, <1>2, <2>1, Untouched
    <2>2. CASE Fails(s) /\ error' = TRUE /\ settled' = TRUE
      <3>1. UNCHANGED <<view, prev, log>>
        BY <2>2 DEF Fails
      <3> QED  BY <1>1, <2>2, <3>1
               DEF ViewOK, ShownType, OldDataIsFlagged, ReportedIsShown, LogMatchesView
    <2>3. CASE Answered(s) /\ ticks[s].alive
      <3>1. ticks[s] \in TickType /\ ticks[s].at = polled
        BY <1>1, <2>3 DEF Answered, LoopType, OwnTicks
      <3>2. Show(polled, ticks[s])
        BY <2>3, <3>1 DEF Answered
      <3>3. ticks[s].ccs \in ClassCaches /\ ticks[s].archives \in Archives
        BY <3>1 DEF TickType
      <3> QED  BY <1>1, <1>2, <3>2, <3>3, ShowKeeps DEF LoopType
    <2> QED  BY <2>1, <2>2, <2>3 DEF Tick, Fails, Answered, shown
  <1> QED  BY <1>1, <1>2, <1>4, <1>5, <1>6, Untouched, InvPartsNext

LEMMA SettingsKeep ==
  ASSUME IInv, DemoTick \/ Rerun \/ User
  PROVE  IInv'
  <1>1. WorldType /\ DiagnosisType /\ LoopType /\ OwnTicks /\ ViewOK
    BY InvParts
  <1>2. CASE DemoTick
    <2>1. ViewOK'
      BY <1>1, <1>2, DemoAnswers, ShowKeeps DEF DemoTick, LoopType
    <2>2. LoopType'
      BY <1>1, <1>2 DEF DemoTick, LoopType, settings
    <2> QED  BY <1>1, <1>2, <2>1, <2>2, Untouched, InvPartsNext DEF DemoTick
  <1>3. CASE Rerun
    <2>1. /\ ViewOK' /\ OwnTicks' /\ polled' \in Settings
          /\ ticks' \in [Slot -> TickType \union {NoTick}]
      BY <1>1, <1>3, EffectsKeep DEF Rerun, LoopType
    <2>2. LoopType'
      BY <1>1, <1>3, <2>1 DEF Rerun, LoopType, settings
    <2> QED  BY <1>1, <1>3, <2>1, <2>2, Untouched, InvPartsNext DEF Rerun
  <1>4. CASE SetDemoMode
    <2>1. /\ ViewOK' /\ OwnTicks' /\ polled' \in Settings
          /\ ticks' \in [Slot -> TickType \union {NoTick}]
      BY <1>1, <1>4, EffectsKeep DEF SetDemoMode, LoopType
    <2>2. events' \in 0..MaxEvents
      BY <1>1, <1>4, EventCounts DEF SetDemoMode
    <2>3. LoopType'
      BY <1>1, <1>4, <2>1, <2>2 DEF SetDemoMode, LoopType
    <2> QED  BY <1>1, <1>4, <2>1, <2>3, Untouched, InvPartsNext DEF SetDemoMode
  <1>5. ASSUME NEW a \in Addr, EditAddr(a) PROVE IInv'
    <2>1. /\ ViewOK' /\ OwnTicks' /\ polled' \in Settings
          /\ ticks' \in [Slot -> TickType \union {NoTick}]
      BY <1>1, <1>5, EffectsKeep DEF EditAddr, LoopType
    <2>2. events' \in 0..MaxEvents
      BY <1>1, <1>5, EventCounts DEF EditAddr
    <2>3. LoopType'
      BY <1>1, <1>5, <2>1, <2>2 DEF EditAddr, LoopType
    <2>4. DiagnosisType'
      BY <1>1, <1>5 DEF EditAddr, DiagnosisType
    <2> QED  BY <1>1, <1>5, <2>1, <2>3, <2>4, Untouched, InvPartsNext DEF EditAddr
  <1> QED  BY <1>2, <1>3, <1>4, <1>5 DEF User

LEMMA DiagnosingKeeps ==
  ASSUME IInv, Diagnosing
  PROVE  IInv'
  <1>1. WorldType /\ DiagnosisType /\ LoopType /\ OwnTicks /\ ViewOK
    BY InvParts
  <1>2. UNCHANGED <<world, addr, shown, polled, ticks, events>>
    BY DEF Diagnosing, DiagnoseDue, Diagnose, Diagnosed, settings
  <1>3. demo' \in BOOLEAN
    BY <1>1 DEF Diagnosing, DiagnoseDue, Diagnose, Diagnosed, settings, LoopType
  <1>4. LoopType'
    BY <1>1, <1>2, <1>3 DEF LoopType
  <1>5. DiagnosisType'
    <2>1. CASE DiagnoseDue
      <3>1. AsksDiag(addr) \in [mount : BOOLEAN, addr : Addr, asked : BOOLEAN, valkey : BOOLEAN]
        BY <1>1 DEF AsksDiag, LoopType
      <3>2. diags' = diags \union {AsksDiag(addr)} /\ timer' = FALSE /\ UNCHANGED <<diag, raced>>
        BY <2>1 DEF DiagnoseDue
      <3> QED  BY <1>1, <3>1, <3>2 DEF DiagnosisType
    <2>2. ASSUME NEW d \in diags, Diagnose(d) PROVE DiagnosisType'
      <3> DEFINE done == [d EXCEPT !.asked = TRUE, !.valkey = d.addr \in up]
      <3>1. d \in [mount : BOOLEAN, addr : Addr, asked : BOOLEAN, valkey : BOOLEAN]
        BY <1>1 DEF DiagnosisType
      <3>2. (d.addr \in up) \in BOOLEAN
        OBVIOUS
      <3>3. done \in [mount : BOOLEAN, addr : Addr, asked : BOOLEAN, valkey : BOOLEAN]
        BY <3>1, <3>2
      <3>4. diags' = (diags \ {d}) \union {done} /\ UNCHANGED <<diag, timer, raced>>
        BY <2>2 DEF Diagnose
      <3> QED  BY <1>1, <3>3, <3>4 DEF DiagnosisType
    <2>3. ASSUME NEW d \in diags, Diagnosed(d) PROVE DiagnosisType'
      BY <1>1, <2>3 DEF Diagnosed, DiagnosisType
    <2> QED  BY <2>1, <2>2, <2>3 DEF Diagnosing
  <1> QED  BY <1>1, <1>2, <1>4, <1>5, Untouched, InvPartsNext

LEMMA WorldKeeps ==
  ASSUME IInv, World
  PROVE  IInv'
  <1>1. WorldType /\ DiagnosisType /\ LoopType /\ OwnTicks /\ ViewOK
    BY InvParts
  <1>2. UNCHANGED <<settings, shown, diagnosis, polled, ticks>> /\ Event
    BY DEF World, KubectlMoves, PhaseMoves, ValkeyMoves, StoreMoves
  <1>3. LoopType'
    BY <1>1, <1>2, EventCounts DEF LoopType, settings
  <1>4. WorldType'
    <2>1. CASE KubectlMoves
      BY <1>1, <2>1 DEF KubectlMoves, WorldType
    <2>2. ASSUME NEW c \in CC, PhaseMoves(c) PROVE WorldType'
      BY <1>1, <2>2 DEF PhaseMoves, WorldType, ClassCaches
    <2>3. ASSUME NEW a \in Addr, ValkeyMoves(a) PROVE WorldType'
      BY <1>1, <2>3 DEF ValkeyMoves, WorldType
    <2>4. ASSUME NEW a \in Addr, NEW k \in Key, StoreMoves(a, k) PROVE WorldType'
      BY <1>1, <2>4 DEF StoreMoves, WorldType, Archives
    <2> QED  BY <2>1, <2>2, <2>3, <2>4 DEF World
  <1> QED  BY <1>1, <1>2, <1>3, <1>4, Untouched, InvPartsNext

LEMMA NextKeeps == IInv /\ [Next]_vars => IInv'
  <1> SUFFICES ASSUME IInv, [Next]_vars PROVE IInv'
    OBVIOUS
  <1>1. CASE UNCHANGED vars
    <2>1. WorldType /\ DiagnosisType /\ LoopType /\ OwnTicks /\ ViewOK
      BY InvParts
    <2>2. LoopType'
      BY <1>1, <2>1 DEF vars, settings, LoopType
    <2> QED  BY <1>1, <2>1, <2>2, Untouched, InvPartsNext DEF vars
  <1>2. CASE Next
    BY <1>2, SettingsKeep, DiagnosingKeeps, WorldKeeps, AnswersKeep, TicksKeep DEF Next, Polling
  <1> QED  BY <1>1, <1>2

-----------------------------------------------------------------------------
(* The theorems.                                                           *)

THEOREM Inductive == Spec => []IInv
  BY InitHolds, NextKeeps, PTL DEF Spec

(* Every variable keeps its type, whatever the backend answers and however *)
(* ticks and diagnoses overlap (App.tsx, app.go).                          *)
THEOREM TypesHold == Spec => []TypeOK
  <1>1. IInv => TypeOK
    BY DEF IInv
  <1> QED  BY <1>1, Inductive, PTL

(* Data of former settings are never shown as present once a tick of the   *)
(* present loop has ended: they are replaced or the banner is up (App.tsx).*)
THEOREM FlagsOldData == Spec => []OldDataIsFlagged
  <1>1. IInv => OldDataIsFlagged
    BY DEF IInv
  <1> QED  BY <1>1, Inductive, PTL

(* What the event log says last of a ClassCache and of the peers is what   *)
(* the window shows (pushEvent in tick, App.tsx).                          *)
THEOREM LogAgreesWithView == Spec => []LogMatchesView
  <1>1. IInv => LogMatchesView
    BY DEF IInv
  <1> QED  BY <1>1, Inductive, PTL

(* No late answer of another address or mode replaces data of the present  *)
(* one (the cleanup of the polling effect, App.tsx).                       *)
THEOREM LateAnswersAreDropped == Spec => StaysWithSettings
  <1>1. IInv /\ [Next]_vars =>
          [view.from = polled /\ polled' = polled => view'.from = polled]_vars
    <2> SUFFICES ASSUME IInv, Next, view.from = polled, polled' = polled
                 PROVE  view'.from = polled
      OBVIOUS
    <2>1. CASE DemoTick
      BY <2>1 DEF DemoTick, Show
    <2>2. ASSUME NEW s \in Slot, Answered(s) PROVE view'.from = polled
      BY <2>2 DEF Answered, Show, shown, IInv, OwnTicks
    <2>3. DemoTick \/ (\E s \in Slot : Answered(s)) \/ view' = view
      BY DEF Next, Rerun, Effects, Diagnosing, DiagnoseDue, Diagnose, Diagnosed, User, EditAddr,
         SetDemoMode, World, KubectlMoves, PhaseMoves, ValkeyMoves, StoreMoves, Tick, Polling,
         ListClassCaches, ListKeys, ListPeers, Fails, shown
    <2> QED  BY <2>1, <2>2, <2>3
  <1> QED  BY <1>1, Inductive, PTL DEF Spec, StaysWithSettings

-----------------------------------------------------------------------------
(* What the window comes to.                                               *)

(* Unless they have raced, diagnoses are about the present address: the    *)
(* one shown, or else one that is due or under way.                        *)
StripInv ==
  raced \/ /\ \A d \in diags : d.addr = addr
           /\ timer \/ diags # {} \/ diag = addr

LEMMA StripKeeps == IInv /\ StripInv /\ [Next]_vars => StripInv'
  <1> SUFFICES ASSUME IInv, StripInv, [Next]_vars PROVE StripInv'
    OBVIOUS
  <1>1. CASE DiagnoseDue
    <2>1. AsksDiag(addr).addr = addr
      BY DEF AsksDiag
    <2>2. /\ addr' = addr /\ raced' = raced
          /\ diags' = diags \union {AsksDiag(addr)}
      BY <1>1 DEF DiagnoseDue, settings
    <2> QED  BY <2>1, <2>2 DEF StripInv
  <1>2. ASSUME NEW d \in diags, Diagnose(d) PROVE StripInv'
    <2>1. [d EXCEPT !.asked = TRUE, !.valkey = d.addr \in up].addr = d.addr
      BY InvParts DEF DiagnosisType
    <2> QED  BY <1>2, <2>1 DEF Diagnose, StripInv, settings
  <1>3. ASSUME NEW d \in diags, Diagnosed(d) PROVE StripInv'
    BY <1>3 DEF Diagnosed, StripInv
  <1>4. ASSUME NEW a \in Addr, EditAddr(a) PROVE StripInv'
    <2>1. raced' = (raced \/ diags # {}) /\ timer' = TRUE /\ diags' = diags
      BY <1>4 DEF EditAddr
    <2>2. raced \in BOOLEAN
      BY InvParts DEF DiagnosisType
    <2> QED  BY <2>1, <2>2 DEF StripInv
  <1>5. CASE UNCHANGED <<addr, diagnosis>>
    BY <1>5 DEF StripInv, diagnosis
  <1> QED  BY <1>1, <1>2, <1>3, <1>4, <1>5
           DEF Next, vars, DemoTick, Rerun, Diagnosing, User, SetDemoMode, World, KubectlMoves,
               PhaseMoves, ValkeyMoves, StoreMoves, Tick, Polling, ListClassCaches, ListKeys,
               ListPeers, Fails, Answered, settings

(* What StripSettles comes to, without fairness. *)
StripIsRight == ~timer /\ diags = {} => raced \/ diag = addr

(* When no diagnosis is due or under way, the one shown is about the       *)
(* address next to it, unless the address was edited under a diagnosis     *)
(* (diagnose, App.tsx).                                                    *)
THEOREM TheStripIsRight == Spec => []StripIsRight
  <1>1. Init => StripInv
    BY DEF Init, StripInv
  <1>2. StripInv => StripIsRight
    BY DEF StripInv, StripIsRight
  <1> QED  BY <1>1, <1>2, StripKeeps, Inductive, PTL DEF Spec

(* The peers of an archive are asked for after the keys only.              *)
KeysFirst ==
  \A s \in Slot : ticks[s] # NoTick /\ "keys" \in ticks[s].pending
                    => ticks[s].pending \intersect Key = {}

LEMMA KeysFirstKeeps == IInv /\ KeysFirst /\ [Next]_vars => KeysFirst'
  <1> SUFFICES ASSUME IInv, KeysFirst, [Next]_vars PROVE KeysFirst'
    OBVIOUS
  <1>0. ticks \in [Slot -> TickType \union {NoTick}]
    BY InvParts DEF LoopType
  <1>1. ASSUME NEW s \in Slot, ListClassCaches(s) \/ ListKeys(s) \/ \E k \in Key : ListPeers(s, k)
        PROVE  KeysFirst'
    <2>1. /\ ticks[s] \in TickType /\ ticks[s] # NoTick
          /\ \A r \in Slot \ {s} : ticks'[r] = ticks[r]
      BY <1>0, <1>1 DEF ListClassCaches, ListKeys, ListPeers, Waits
    <2>2. \/ ticks'[s].pending \subseteq ticks[s].pending
          \/ "keys" \notin ticks'[s].pending
      <3>1. CASE ListClassCaches(s)
        BY <1>0, <2>1, <3>1 DEF ListClassCaches, TickType
      <3>2. CASE ListKeys(s)
        BY <1>0, <2>1, <3>2, ViewerAssumption DEF ListKeys, TickType, Listed
      <3>3. CASE \E k \in Key : ListPeers(s, k)
        BY <1>0, <2>1, <3>3 DEF ListPeers, TickType
      <3> QED  BY <1>1, <3>1, <3>2, <3>3
    <2> QED  BY <2>1, <2>2 DEF KeysFirst
  <1>2. ASSUME NEW s \in Slot, Tick(s) \/ Fails(s) \/ Answered(s) PROVE KeysFirst'
    <2>1. NewTick.pending \intersect Key = {}
      BY ViewerAssumption DEF NewTick
    <2>2. PICK t \in {NewTick, NoTick} : ticks' = [ticks EXCEPT ![s] = t]
      BY <1>2 DEF Tick, Fails, Answered
    <2> QED  BY <1>0, <2>1, <2>2 DEF KeysFirst
  <1>3. ASSUME NEW a \in Addr, NEW d \in BOOLEAN, Effects(a, d) PROVE KeysFirst'
    <2>1. \A s \in Slot : \/ ticks'[s] = NoTick
                          \/ ticks[s] # NoTick /\ ticks'[s].pending = ticks[s].pending
      BY <1>0, <1>3 DEF Effects, TickType
    <2> QED  BY <2>1 DEF KeysFirst
  <1>4. CASE Rerun \/ User
    <2>1. addr \in Addr /\ demo \in BOOLEAN /\ (~demo) \in BOOLEAN
      BY InvParts DEF LoopType
    <2> QED  BY <1>3, <1>4, <2>1 DEF Rerun, User, EditAddr, SetDemoMode
  <1>5. CASE UNCHANGED ticks
    BY <1>5 DEF KeysFirst
  <1> QED  BY <1>1, <1>2, <1>4, <1>5
           DEF Next, vars, DemoTick, Diagnosing, DiagnoseDue, Diagnose, Diagnosed, World,
               KubectlMoves, PhaseMoves, ValkeyMoves, StoreMoves, Polling

(* A step that leaves truthful ticks in a truthful window.                 *)
LEMMA TruthOfOne ==
  ASSUME IInv, UpToDate, UNCHANGED <<world, settings, polled>>, NEW s \in Slot,
         NEW t \in TickType \union {NoTick}, ticks' = [ticks EXCEPT ![s] = t],
         t # NoTick /\ t.alive => Truthful(t)'
  PROVE  UpToDate'
  <1>1. ticks \in [Slot -> TickType \union {NoTick}]
    BY InvParts DEF LoopType
  <1>2. ASSUME NEW r \in Slot, NEW u, u = ticks'[r], u # NoTick, u.alive PROVE Truthful(u)'
    <2>1. CASE r = s
      BY <1>1, <1>2, <2>1
    <2>2. CASE r # s
      <3>1. u = ticks[r]
        BY <1>1, <1>2, <2>2
      <3>2. Truthful(u)
        BY <1>2, <3>1 DEF UpToDate
      <3> QED  BY <3>2 DEF Truthful, Listed, world, settings
    <2> QED  BY <2>1, <2>2
  <1>3. \A r \in Slot : ticks'[r] # NoTick /\ ticks'[r].alive => Truthful(ticks[r])'
    BY <1>2 DEF Truthful
  <1> QED  BY <1>3 DEF UpToDate, world, settings

(* An answer of now leaves a truthful tick truthful. *)
LEMMA AnswersAreTrue ==
  ASSUME IInv, KeysFirst, UpToDate, NEW s \in Slot,
         ListClassCaches(s) \/ ListKeys(s) \/ \E k \in Key : ListPeers(s, k)
  PROVE  UpToDate'
  <1> DEFINE o == ticks[s]
  <1>1. /\ LoopType /\ OwnTicks /\ WorldType
        /\ o # NoTick /\ o \in TickType
    BY InvParts DEF LoopType, ListClassCaches, ListKeys, ListPeers, Waits
  <1>2. UNCHANGED <<world, settings, polled>>
    BY DEF ListClassCaches, ListKeys, ListPeers
  <1>3. o.alive => Truthful(o) /\ o.at.addr = addr
    <2>1. o.alive => o.at = polled /\ Truthful(o)
      BY <1>1 DEF OwnTicks, UpToDate
    <2> QED  BY <2>1 DEF UpToDate
  <1>4. PICK t : t = ticks'[s]
    OBVIOUS
  <1>5. ticks' = [ticks EXCEPT ![s] = t] /\ t \in TickType /\ t.alive = o.alive
    BY <1>4, AnswersFit
  <1>6. ASSUME t.alive PROVE Truthful(t)
    <2>1. Truthful(o) /\ o.at.addr = addr
      BY <1>3, <1>5, <1>6
    <2>2. CASE ListClassCaches(s)
      <3>1. /\ t.ccs = phases /\ t.archives = o.archives
            /\ t.pending = o.pending \ {"classcaches"}
        BY <1>1, <1>4, <2>2 DEF ListClassCaches, LoopType, TickType
      <3> QED  BY <2>1, <3>1, ViewerAssumption DEF Truthful
    <2>3. CASE ListKeys(s)
      <3>1. /\ t.ccs = o.ccs
            /\ t.archives = [k \in Key |-> IF k \in Listed(addr) THEN 0 ELSE Unlisted]
            /\ t.pending = (o.pending \ {"keys"}) \union Listed(addr)
            /\ "keys" \in o.pending
        BY <1>1, <1>4, <2>1, <2>3 DEF ListKeys, Waits, LoopType, TickType
      <3>2. o.pending \intersect Key = {}
        BY <1>1, <3>1 DEF KeysFirst
      <3>3. \A k \in Key : IF k \in t.pending THEN k \in Listed(addr)
                           ELSE t.archives[k] = store[addr][k]
        BY <3>1, <3>2 DEF Listed
      <3>4. "classcaches" \in t.pending \/ t.ccs = phases
        BY <2>1, <3>1 DEF Truthful
      <3> QED  BY <3>3, <3>4 DEF Truthful
    <2>4. ASSUME NEW k \in Key, ListPeers(s, k) PROVE Truthful(t)
      <3>1. /\ t.ccs = o.ccs /\ t.pending = o.pending \ {k} /\ k \in o.pending
            /\ t.archives = [o.archives EXCEPT ![k] = Peers(addr, k)]
        <4>1. addr \in up
          BY DEF UpToDate
        <4> QED  BY <1>1, <1>4, <2>1, <2>4, <4>1 DEF ListPeers, Waits, LoopType, TickType
      <3>2. "keys" \notin o.pending
        BY <1>1, <3>1 DEF KeysFirst
      <3>3. \A j \in Key : IF j \in o.pending THEN j \in Listed(addr)
                           ELSE o.archives[j] = store[addr][j]
        BY <2>1, <3>2 DEF Truthful
      <3>4. Peers(addr, k) = store[addr][k]
        BY <3>1, <3>3 DEF Peers, Listed
      <3>5. o.archives \in [Key -> {Unlisted} \union 0..MaxPeers]
        BY <1>1 DEF TickType, Archives
      <3>6. \A j \in Key : IF j \in t.pending THEN j \in Listed(addr)
                           ELSE t.archives[j] = store[addr][j]
        BY <3>1, <3>3, <3>4, <3>5
      <3>7. "classcaches" \in t.pending \/ t.ccs = phases
        BY <2>1, <3>1, ViewerAssumption DEF Truthful
      <3> QED  BY <3>6, <3>7 DEF Truthful
    <2> QED  BY <2>2, <2>3, <2>4
  <1>7. t.alive => Truthful(t)'
    BY <1>2, <1>6 DEF Truthful, Listed, world, settings
  <1> QED  BY <1>2, <1>5, <1>7, TruthOfOne

(* A tick that begins is truthful: it knows nothing yet. *)
LEMMA NewTicksAreTrue ==
  ASSUME IInv, UpToDate, NEW s \in Slot, Tick(s)
  PROVE  UpToDate'
  <1>1. PICK t : t = NewTick
    OBVIOUS
  <1>2. t \in TickType
    BY <1>1, NewTickIsATick, InvParts
  <1>3. ticks' = [ticks EXCEPT ![s] = t] /\ UNCHANGED <<world, settings, polled>>
    BY <1>1 DEF Tick
  <1>4. t.pending = {"classcaches", "keys"}
    BY <1>1 DEF NewTick
  <1>5. Truthful(t)'
    BY <1>4 DEF Truthful
  <1> QED  BY <1>2, <1>3, <1>5, TruthOfOne

(* A truthful tick does not fail, and shows the truth when it ends. *)
LEMMA EndsAreTrue ==
  ASSUME IInv, UpToDate, NEW s \in Slot, Fails(s) \/ Answered(s)
  PROVE  UpToDate' /\ (ShowsTruth \/ view' # view => ShowsTruth')
  <1>1. /\ LoopType /\ OwnTicks /\ WorldType
        /\ ticks[s] # NoTick /\ ticks[s] \in TickType
    BY InvParts DEF LoopType, Fails, Answered, Waits
  <1>2. UNCHANGED <<world, settings, polled>> /\ ticks' = [ticks EXCEPT ![s] = NoTick]
    BY DEF Fails, Answered
  <1>3. UpToDate'
    BY <1>2, TruthOfOne
  <1>4. CASE Fails(s)
    <2>1. ~ticks[s].alive
      <3>1. ticks[s].alive => ticks[s].at.addr = addr
        BY <1>1 DEF OwnTicks, UpToDate
      <3> QED  BY <1>4, <3>1 DEF Fails, UpToDate
    <2>2. UNCHANGED <<view, error>>
      BY <1>4, <2>1 DEF Fails
    <2> QED  BY <1>2, <1>3, <2>2 DEF ShowsTruth, world, settings
  <1>5. CASE Answered(s) /\ ~ticks[s].alive
    <2>1. UNCHANGED <<view, error>>
      BY <1>5 DEF Answered, shown
    <2> QED  BY <1>2, <1>3, <2>1 DEF ShowsTruth, world, settings
  <1>6. CASE Answered(s) /\ ticks[s].alive
    <2>1. Truthful(ticks[s]) /\ ticks[s].pending = {} /\ ticks[s].at = polled
      BY <1>1, <1>6 DEF UpToDate, OwnTicks, Answered
    <2>2. ticks[s].ccs = phases /\ \A k \in Key : ticks[s].archives[k] = store[addr][k]
      BY <2>1 DEF Truthful
    <2>3. ticks[s].archives = store[addr]
      <3>1. /\ ticks[s].archives \in [Key -> {Unlisted} \union 0..MaxPeers]
            /\ store[addr] \in [Key -> {Unlisted} \union 0..MaxPeers]
        BY <1>1 DEF TickType, Archives, WorldType, LoopType
      <3> QED  BY <2>2, <3>1
    <2>4. /\ view' = [from |-> polled, ccs |-> phases, archives |-> store[addr]]
          /\ error' = FALSE
      BY <1>6, <2>1, <2>2, <2>3 DEF Answered, Show
    <2>5. ShowsTruth'
      BY <1>2, <2>4 DEF ShowsTruth, UpToDate, world, settings
    <2> QED  BY <1>3, <2>5
  <1> QED  BY <1>4, <1>5, <1>6

(* As soon as every answer under way is of the present, the window shows   *)
(* the truth with the next one and keeps it until something changes: old   *)
(* answers overwrite newer ones only while they last (tick, App.tsx).      *)
THEOREM TruthIsKept == Spec => TruthStays
  <1>1. Init => KeysFirst
    BY DEF Init, KeysFirst
  <1>2. IInv /\ KeysFirst /\ [Next]_vars =>
          [UpToDate /\ UNCHANGED <<world, settings>> =>
             UpToDate' /\ (ShowsTruth \/ view' # view => ShowsTruth')]_vars
    <2> SUFFICES ASSUME IInv, KeysFirst, Next, UpToDate, UNCHANGED <<world, settings>>
                 PROVE  UpToDate' /\ (ShowsTruth \/ view' # view => ShowsTruth')
      OBVIOUS
    <2>1. ASSUME NEW s \in Slot, Tick(s)
          PROVE  UpToDate' /\ (ShowsTruth \/ view' # view => ShowsTruth')
      <3>1. UNCHANGED <<view, error, polled>>
        BY <2>1 DEF Tick, shown
      <3> QED  BY <2>1, <3>1, NewTicksAreTrue DEF ShowsTruth, world, settings
    <2>2. ASSUME NEW s \in Slot,
                 ListClassCaches(s) \/ ListKeys(s) \/ \E k \in Key : ListPeers(s, k)
          PROVE  UpToDate' /\ (ShowsTruth \/ view' # view => ShowsTruth')
      <3>1. UNCHANGED <<view, error, polled>>
        BY <2>2 DEF ListClassCaches, ListKeys, ListPeers, shown
      <3> QED  BY <2>2, <3>1, AnswersAreTrue DEF ShowsTruth, world, settings
    <2>3. ASSUME NEW s \in Slot, Fails(s) \/ Answered(s)
          PROVE  UpToDate' /\ (ShowsTruth \/ view' # view => ShowsTruth')
      BY <2>3, EndsAreTrue
    <2>4. ~DemoTick /\ ~Rerun
      BY DEF DemoTick, Rerun, UpToDate
    <2>5. ~User
      <3>1. demo \in BOOLEAN
        BY InvParts DEF LoopType
      <3> QED  BY <3>1 DEF User, EditAddr, SetDemoMode, settings
    <2>6. CASE UNCHANGED <<ticks, polled, view, error>>
      BY <2>6 DEF UpToDate, Truthful, Listed, ShowsTruth, world, settings
    <2> QED  BY <2>1, <2>2, <2>3, <2>4, <2>5, <2>6
             DEF Next, Diagnosing, DiagnoseDue, Diagnose, Diagnosed, World, KubectlMoves,
                 PhaseMoves, ValkeyMoves, StoreMoves, Polling, shown
  <1> QED  BY <1>1, <1>2, KeysFirstKeeps, Inductive, PTL DEF Spec, TruthStays

=============================================================================
