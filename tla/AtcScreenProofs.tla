--------------------------- MODULE AtcScreenProofs ---------------------------
(***************************************************************************)
(* Proofs about AtcScreen, for every scenario, keyboard, panel, layout and *)
(* bound: the timer follows the game, a command kept for a delay never *)
(* outlives the typing that leads to one, and in the layout without a Tick *)
(* button every loss is announced once.                                    *)
(***************************************************************************)
EXTENDS AtcScreen, AtcGameProofs, TLAPS

------------------------------------------------------------------------------
(* What the engine's steps do to the status of the game *)

LEMMA AdvanceStatus ==
  ASSUME AdvanceGame
  PROVE  \/ status' = status
         \/ status = "playing" /\ status' = "lost"
  BY DEF AdvanceGame, Advance, AdvanceLoses, AdvanceCollides, AdvanceFlies, vars

LEMMA ApplyStatus ==
  ASSUME NEW c, Apply(c)
  PROVE  status' = status
  BY DEF Apply, ApplyCommand, vars

------------------------------------------------------------------------------
(* The timer *)

(* Routes are stacked over an open screen only: what lets the map menu and  *)
(* the dialog start a game, and its timer, without looking whether the      *)
(* screen is still there.                                                   *)
TimerInv ==
  /\ timer \in BOOLEAN
  /\ status \in {"playing", "lost"}
  /\ routes # << >> => screen = "open"
  /\ timer => Playing

LEMMA InitTimer == ScreenInit => TimerInv
  BY DEF ScreenInit, Init, TimerInv, Playing

(* The three callers of advance, with what they do when the game is lost.   *)
LEMMA TickTimer ==
  ASSUME TimerInv, screen = "open", AdvanceGame, ReactToLoss, UNCHANGED << screen, routes >>
  PROVE  TimerInv'
  BY AdvanceStatus DEF TimerInv, Playing, ReactToLoss

LEMMA RestartTimer ==
  ASSUME TimerInv, screen' = "open", Restart
  PROVE  TimerInv'
  BY DEF TimerInv, Playing, Restart

LEMMA SameTimer ==
  ASSUME TimerInv, UNCHANGED << screen, timer, status, routes >>
  PROVE  TimerInv'
  BY DEF TimerInv, Playing

LEMMA TimerInductive == TimerInv /\ [ScreenNext]_allVars => TimerInv'
<1> SUFFICES ASSUME TimerInv, [ScreenNext]_allVars PROVE TimerInv'
  OBVIOUS
<1>1. CASE Load \/ Refresh
  BY <1>1, RestartTimer DEF Load, Refresh, Touchable
<1>2. CASE Back
  BY <1>2 DEF Back, Dispose, TimerInv, Playing, vars
<1>3. CASE TimerFires \/ TickButton \/ OldTickButton
  <2>1. CASE TimerFires \/ TickButton
    BY <2>1, TickTimer DEF TimerFires, TickButton
  <2>2. CASE OldTickButton
    BY <2>2 DEF OldTickButton, TimerInv, Playing, vars
  <2> QED
    BY <1>3, <2>1, <2>2
<1>4. CASE Frame
  BY <1>4 DEF Frame, TimerInv, Playing, vars
<1>5. CASE KeyEscape \/ KeyEnterPartial
  BY <1>5, SameTimer DEF KeyEscape, KeyEnterPartial, vars
<1>6. CASE KeyEnterIdle
  <2>1. AdvanceGame /\ screen = "open"
    BY <1>6 DEF KeyEnterIdle, AdvanceGame, Playing
  <2> QED
    BY <1>6, <2>1, TickTimer DEF KeyEnterIdle
<1>7. ASSUME NEW ch \in Keys, KeyChar(ch)
      PROVE  TimerInv'
  BY <1>7, ApplyStatus, SameTimer DEF KeyChar
<1>8. CASE SelectPlane \/ DismissPanel \/ BackToTop
  BY <1>8, SameTimer DEF SelectPlane, DismissPanel, BackToTop, OnlyPanel, vars
<1>9. ASSUME NEW mode, OpenPanel(mode)
      PROVE  TimerInv'
  BY <1>9, SameTimer DEF OpenPanel, OnlyPanel, vars
<1>10. ASSUME NEW c, SendCommand(c)
       PROVE  TimerInv'
  BY <1>10, SameTimer DEF SendCommand, ApplyCommand
<1>11. CASE OpenMenu
  BY <1>11 DEF OpenMenu, Touchable, TimerInv, Playing, vars
<1>12. CASE SelectMap
  <2>1. screen' = "open"
    BY <1>12 DEF SelectMap, Over, TimerInv
  <2> QED
    BY <1>12, <2>1, RestartTimer DEF SelectMap
<1>13. CASE DialogNewGame
  BY <1>13, RestartTimer DEF DialogNewGame
<1>14. CASE DialogMainMenu
  BY <1>14 DEF DialogMainMenu, Dispose, TimerInv, Playing, vars
<1>15. CASE UNCHANGED allVars
  BY <1>15, SameTimer DEF allVars, vars, uiVars
<1> QED
  BY <1>1, <1>2, <1>3, <1>4, <1>5, <1>6, <1>7, <1>8, <1>9, <1>10, <1>11, <1>12,
     <1>13, <1>14, <1>15
  DEF ScreenNext

(* What leaves a game on without a timer: the old Tick button alone.        *)
Keeps == Untimed' => games' = games /\ (Untimed \/ (tick = "old"))

LEMMA TickKeeps ==
  ASSUME AdvanceGame, ReactToLoss, UNCHANGED << screen, games >>
  PROVE  Keeps
  BY AdvanceStatus DEF Keeps, Untimed, Playing, ReactToLoss

LEMMA RestartKeeps ==
  ASSUME Restart
  PROVE  Keeps
  BY DEF Keeps, Untimed, Restart

LEMMA SameKeeps ==
  ASSUME UNCHANGED << screen, games, timer, status >>
  PROVE  Keeps
  BY DEF Keeps, Untimed, Playing

LEMMA LeaveKeeps ==
  ASSUME UNCHANGED << vars, games >>,
         \/ Dispose
         \/ UNCHANGED << screen, timer >>
  PROVE  Keeps
  BY SameKeeps DEF Keeps, Untimed, Playing, Dispose, vars

LEMMA StepKeeps == [ScreenNext]_allVars => Keeps
<1> SUFFICES ASSUME [ScreenNext]_allVars PROVE Keeps
  OBVIOUS
<1>1. CASE Load \/ Refresh \/ SelectMap \/ DialogNewGame
  BY <1>1, RestartKeeps DEF Load, Refresh, SelectMap, DialogNewGame
<1>2. CASE Back \/ DialogMainMenu
  BY <1>2, LeaveKeeps DEF Back, DialogMainMenu
<1>3. CASE TimerFires \/ TickButton
  BY <1>3, TickKeeps DEF TimerFires, TickButton
<1>4. CASE OldTickButton
  BY <1>4 DEF OldTickButton, Keeps
<1>5. CASE KeyEnterIdle
  <2>1. AdvanceGame
    BY <1>5 DEF KeyEnterIdle, AdvanceGame, Playing
  <2> QED
    BY <1>5, <2>1, TickKeeps DEF KeyEnterIdle
<1>6. CASE Frame \/ KeyEscape \/ KeyEnterPartial
  BY <1>6, SameKeeps DEF Frame, KeyEscape, KeyEnterPartial, vars
<1>7. ASSUME NEW ch \in Keys, KeyChar(ch)
      PROVE  Keeps
  BY <1>7, ApplyStatus, SameKeeps DEF KeyChar
<1>8. CASE SelectPlane \/ DismissPanel \/ BackToTop \/ OpenMenu
  BY <1>8, SameKeeps
  DEF SelectPlane, DismissPanel, BackToTop, OpenMenu, OnlyPanel, vars
<1>9. ASSUME NEW mode, OpenPanel(mode)
      PROVE  Keeps
  BY <1>9, SameKeeps DEF OpenPanel, OnlyPanel, vars
<1>10. ASSUME NEW c, SendCommand(c)
       PROVE  Keeps
  BY <1>10, SameKeeps DEF SendCommand, ApplyCommand
<1>11. CASE UNCHANGED allVars
  BY <1>11, SameKeeps DEF allVars, vars, uiVars
<1> QED
  BY <1>1, <1>2, <1>3, <1>4, <1>5, <1>6, <1>7, <1>8, <1>9, <1>10, <1>11
  DEF ScreenNext

(* Whoever makes the losing tick, however games are restarted and the       *)
(* screen is left, a live timer has a game on an open screen to tick, a     *)
(* game starts with its timer, and nothing takes the timer from a game that *)
(* is on but a press of the Tick button of the game it replaced             *)
(* (atc_screen.dart:73 to 93, 110 and 526 to 536).                          *)
THEOREM TimerWhilePlaying == ScreenSpec => TimerFollowsGame
<1>1. TimerInv => (timer => Playing)
  BY DEF TimerInv
<1>2. [ScreenNext]_allVars
        => [Untimed' => /\ games' = games
                        /\ Untimed \/ tick = "old"]_allVars
  BY StepKeeps DEF Keeps
<1> QED
  BY <1>1, <1>2, InitTimer, TimerInductive, PTL DEF ScreenSpec, TimerFollowsGame

------------------------------------------------------------------------------
(* The announcement of a loss *)

(* A game is announced lost when its last tick is made, and never again:    *)
(* without a Tick button nobody ticks a game that is lost, since the timer  *)
(* has stopped and the keyboard looks.                                      *)
AnnouncedInv ==
  /\ TimerInv
  /\ Layout = "narrow" => tick = "none"
  /\ AnnouncedOnce

LEMMA InitAnnounced == ScreenInit => AnnouncedInv
  BY InitTimer DEF ScreenInit, AnnouncedInv, AnnouncedOnce

LEMMA TickAnnounced ==
  ASSUME AnnouncedInv, Playing, AdvanceGame, ReactToLoss, UNCHANGED screen
  PROVE  AnnouncedOnce'
<1>1. status = "playing" /\ screen = "open" /\ announced = 0
  BY DEF AnnouncedInv, AnnouncedOnce, Playing
<1>2. CASE status' = status
  BY <1>1, <1>2 DEF AnnouncedOnce, ReactToLoss
<1>3. CASE status' = "lost"
  BY <1>1, <1>3 DEF AnnouncedOnce, ReactToLoss
<1> QED
  BY <1>2, <1>3, AdvanceStatus

LEMMA RestartAnnounced ==
  ASSUME Restart
  PROVE  AnnouncedOnce'
  BY DEF Restart, AnnouncedOnce

LEMMA SameAnnounced ==
  ASSUME AnnouncedInv, UNCHANGED << status, announced >>, screen' = "open" => screen = "open"
  PROVE  AnnouncedOnce'
  BY DEF AnnouncedInv, AnnouncedOnce

LEMMA NoTickInductive ==
  ASSUME Layout = "narrow", tick = "none", [ScreenNext]_allVars
  PROVE  tick' = "none"
<1>1. CASE Load \/ Refresh \/ SelectMap \/ DialogNewGame
  BY <1>1 DEF Load, Refresh, SelectMap, DialogNewGame, Restart
<1>2. CASE Frame
  BY <1>2 DEF Frame, BuildTick
<1>3. CASE Back \/ DialogMainMenu \/ TimerFires \/ TickButton \/ OldTickButton
  BY <1>3 DEF Back, DialogMainMenu, TimerFires, TickButton, OldTickButton
<1>4. CASE KeyEscape \/ KeyEnterPartial \/ KeyEnterIdle
  BY <1>4 DEF KeyEscape, KeyEnterPartial, KeyEnterIdle
<1>5. CASE SelectPlane \/ DismissPanel \/ BackToTop \/ OpenMenu
  BY <1>5 DEF SelectPlane, DismissPanel, BackToTop, OpenMenu, OnlyPanel
<1>6. ASSUME NEW ch, KeyChar(ch)
      PROVE  tick' = "none"
  BY <1>6 DEF KeyChar
<1>7. ASSUME NEW mode, OpenPanel(mode)
      PROVE  tick' = "none"
  BY <1>7 DEF OpenPanel, OnlyPanel
<1>8. ASSUME NEW c, SendCommand(c)
      PROVE  tick' = "none"
  BY <1>8 DEF SendCommand
<1>9. CASE UNCHANGED allVars
  BY <1>9 DEF allVars, uiVars
<1> QED
  BY <1>1, <1>2, <1>3, <1>4, <1>5, <1>6, <1>7, <1>8, <1>9 DEF ScreenNext

LEMMA AnnouncedInductive ==
  ASSUME Layout = "narrow"
  PROVE  AnnouncedInv /\ [ScreenNext]_allVars => AnnouncedInv'
<1> SUFFICES ASSUME AnnouncedInv, [ScreenNext]_allVars PROVE AnnouncedOnce'
  BY TimerInductive, NoTickInductive DEF AnnouncedInv
<1>1. CASE Load \/ Refresh \/ SelectMap \/ DialogNewGame
  BY <1>1, RestartAnnounced DEF Load, Refresh, SelectMap, DialogNewGame
<1>2. CASE Back \/ DialogMainMenu
  BY <1>2, SameAnnounced DEF Back, DialogMainMenu, Dispose, vars
<1>3. CASE TimerFires
  <2>1. Playing
    BY <1>3 DEF TimerFires, AnnouncedInv, TimerInv
  <2> QED
    BY <1>3, <2>1, TickAnnounced DEF TimerFires
<1>4. ~TickButton /\ ~OldTickButton
  BY DEF TickButton, OldTickButton, AnnouncedInv
<1>5. CASE Frame
  BY <1>5, SameAnnounced DEF Frame, vars
<1>6. CASE KeyEscape \/ KeyEnterPartial
  BY <1>6, SameAnnounced DEF KeyEscape, KeyEnterPartial, vars
<1>7. CASE KeyEnterIdle
  <2>1. AdvanceGame
    BY <1>7 DEF KeyEnterIdle, AdvanceGame, Playing
  <2> QED
    BY <1>7, <2>1, TickAnnounced DEF KeyEnterIdle
<1>8. ASSUME NEW ch \in Keys, KeyChar(ch)
      PROVE  AnnouncedOnce'
  BY <1>8, ApplyStatus, SameAnnounced DEF KeyChar
<1>9. CASE SelectPlane \/ DismissPanel \/ BackToTop \/ OpenMenu
  BY <1>9, SameAnnounced
  DEF SelectPlane, DismissPanel, BackToTop, OpenMenu, OnlyPanel, vars
<1>10. ASSUME NEW mode, OpenPanel(mode)
       PROVE  AnnouncedOnce'
  BY <1>10, SameAnnounced DEF OpenPanel, OnlyPanel, vars
<1>11. ASSUME NEW c, SendCommand(c)
       PROVE  AnnouncedOnce'
  BY <1>11, SameAnnounced DEF SendCommand, ApplyCommand
<1>12. CASE UNCHANGED allVars
  BY <1>12, SameAnnounced DEF allVars, vars, uiVars
<1> QED
  BY <1>1, <1>2, <1>3, <1>4, <1>5, <1>6, <1>7, <1>8, <1>9, <1>10, <1>11, <1>12
  DEF ScreenNext

(* In the narrow layout the timer and the Enter key ask for the dialog of a *)
(* loss exactly once (atc_screen.dart:87); the Tick button of the wide one  *)
(* can ask again before the frame that disables it.                         *)
THEOREM LossAnnouncedOnce ==
  ASSUME Layout = "narrow"
  PROVE  ScreenSpec => []AnnouncedOnce
<1>1. AnnouncedInv => AnnouncedOnce
  BY DEF AnnouncedInv
<1> QED
  BY <1>1, InitAnnounced, AnnouncedInductive, PTL DEF ScreenSpec

------------------------------------------------------------------------------
(* The keyboard *)

KbdStates ==
  {"idle", "plane", "turn", "turnLeftAmt", "turnRightAmt", "delayable",
   "delayAtBeacon", "delayAtBeaconNum", "towards", "towardBeacon",
   "towardExit", "towardAirport", "alt", "altClimb", "altDescend"}

Delaying == {"delayable", "delayAtBeacon", "delayAtBeaconNum"}

(* A keyboard (a record of three fields) that keeps a command exactly while *)
(* a delay may follow.                                                      *)
KbdOK(k) ==
  /\ DOMAIN k = {"state", "label", "pending"}
  /\ k.state \in KbdStates
  /\ k.pending # NoCommand <=> k.state \in Delaying

LEMMA IdleOK == KbdOK(IdleKbd)
  BY DEF KbdOK, IdleKbd, KbdStates, Delaying

LEMMA GotoOK ==
  ASSUME NEW k, KbdOK(k), NEW s \in KbdStates, s \in Delaying <=> k.state \in Delaying
  PROVE  KbdOK(Goto(k, s).kbd)
  BY DEF KbdOK, Goto

LEMMA IgnoredOK ==
  ASSUME NEW k, KbdOK(k)
  PROVE  KbdOK(Ignored(k).kbd)
  BY GotoOK DEF Ignored, KbdOK

LEMMA ResetOK == KbdOK(Reset.kbd)
  BY IdleOK DEF Reset

LEMMA ExecResetOK == \A c : KbdOK(ExecReset(c).kbd)
  BY IdleOK DEF ExecReset

LEMMA QueueDelayableOK ==
  ASSUME NEW k, KbdOK(k), NEW c, c # NoCommand, NEW s \in Delaying
  PROVE  KbdOK(QueueDelayable(k, c, s).kbd)
  BY DEF KbdOK, QueueDelayable, Delaying, KbdStates

(* A record with an operation is a command.                                 *)
LEMMA Circles == \A l : [op |-> "circle", label |-> l] # NoCommand
  BY DEF NoCommand

LEMMA Turns ==
  /\ \A l, d : [op |-> "turnDir", label |-> l, dir |-> d] # NoCommand
  /\ \A l, d : [op |-> "turnToward", label |-> l, dest |-> d] # NoCommand
  BY DEF NoCommand

LEMMA Relatives ==
  ASSUME NEW k, NEW side \in {"turnLeft", "turnRight"}, NEW n
  PROVE  Relative(k, side, n) # NoCommand
  BY DEF NoCommand, Relative

LEMMA OnIdleOK ==
  ASSUME NEW k, KbdOK(k), k.state \notin Delaying, NEW ch
  PROVE  KbdOK(OnIdle(k, ch).kbd)
<1>1. ASSUME NEW l
      PROVE  KbdOK([k EXCEPT !.state = "plane", !.label = l])
  BY DEF KbdOK, KbdStates, Delaying
<1> QED
  BY <1>1, IgnoredOK DEF OnIdle

LEMMA OnPlaneOK ==
  ASSUME NEW k, KbdOK(k), k.state = "plane", NEW ch
  PROVE  KbdOK(OnPlane(k, ch).kbd)
<1>1. KbdOK(Goto(k, "turn").kbd) /\ KbdOK(Goto(k, "alt").kbd)
  BY GotoOK DEF KbdStates, Delaying
<1>2. KbdOK(QueueDelayable(k, [op |-> "circle", label |-> k.label], "delayable").kbd)
  BY Circles, QueueDelayableOK DEF Delaying
<1> QED
  BY <1>1, <1>2, ExecResetOK, IgnoredOK DEF OnPlane

LEMMA OnTurnOK ==
  ASSUME NEW k, KbdOK(k), k.state = "turn", NEW ch
  PROVE  KbdOK(OnTurn(k, ch).kbd)
<1>1. \A s \in {"turnLeftAmt", "turnRightAmt", "towards"} : KbdOK(Goto(k, s).kbd)
  BY GotoOK DEF KbdStates, Delaying
<1>2. \A side \in {"turnLeft", "turnRight"} :
        KbdOK(QueueDelayable(k, Relative(k, side, 2), "delayable").kbd)
  BY Relatives, QueueDelayableOK DEF Delaying
<1>3. \A d : KbdOK(QueueDelayable(k, [op |-> "turnDir", label |-> k.label, dir |-> d],
                                  "delayable").kbd)
  BY Turns, QueueDelayableOK DEF Delaying
<1> QED
  BY <1>1, <1>2, <1>3, IgnoredOK DEF OnTurn

LEMMA OnAmountOK ==
  ASSUME NEW k, KbdOK(k), NEW ch, NEW side \in {"turnLeft", "turnRight"}
  PROVE  KbdOK(OnAmount(k, ch, side).kbd)
<1>1. \A n : \A s \in Delaying : KbdOK(QueueDelayable(k, Relative(k, side, n), s).kbd)
  BY Relatives, QueueDelayableOK
<1> QED
  BY <1>1 DEF OnAmount, Delaying

LEMMA OnTowardsOK ==
  ASSUME NEW k, KbdOK(k), k.state = "towards", NEW ch
  PROVE  KbdOK(OnTowards(k, ch).kbd)
<1>1. \A s \in {"towardBeacon", "towardExit", "towardAirport"} : KbdOK(Goto(k, s).kbd)
  BY GotoOK DEF KbdStates, Delaying
<1> QED
  BY <1>1, IgnoredOK DEF OnTowards

LEMMA ResolveTowardOK ==
  ASSUME NEW k, KbdOK(k), NEW ch, NEW type, NEW fixes
  PROVE  KbdOK(ResolveToward(k, ch, type, fixes).kbd)
<1>1. \A d : KbdOK(QueueDelayable(k, [op |-> "turnToward", label |-> k.label, dest |-> d],
                                  "delayable").kbd)
  BY Turns, QueueDelayableOK DEF Delaying
<1> QED
  BY <1>1, IgnoredOK, ResetOK DEF ResolveToward

LEMMA OnAltOK ==
  ASSUME NEW k, KbdOK(k), k.state = "alt", NEW ch
  PROVE  KbdOK(OnAlt(k, ch).kbd)
<1>1. \A s \in {"altClimb", "altDescend"} : KbdOK(Goto(k, s).kbd)
  BY GotoOK DEF KbdStates, Delaying
<1> QED
  BY <1>1, ExecResetOK, IgnoredOK DEF OnAlt

LEMMA OnAltRelativeOK ==
  ASSUME NEW k, KbdOK(k), NEW ch, NEW sign
  PROVE  KbdOK(OnAltRelative(k, ch, sign).kbd)
  BY ExecResetOK, IgnoredOK DEF OnAltRelative

LEMMA OnBeaconNumOK ==
  ASSUME NEW k, KbdOK(k), NEW ch
  PROVE  KbdOK(OnBeaconNum(k, ch).kbd)
  BY ExecResetOK, IgnoredOK, ResetOK DEF OnBeaconNum

(* The states in which a character after a command decides on a delay.      *)
LEMMA OnDelayOK ==
  ASSUME NEW k, KbdOK(k), k.state \in Delaying, NEW ch
  PROVE  KbdOK(Reaction(k, ch).kbd)
<1>1. CASE k.state = "delayable"
  <2>1. KbdOK(Goto(k, "delayAtBeacon").kbd)
    BY <1>1, GotoOK DEF KbdStates, Delaying
  <2>2. KbdOK(OnIdle(IdleKbd, ch).kbd)
    BY IdleOK, OnIdleOK DEF IdleKbd, Delaying
  <2> QED
    BY <1>1, <2>1, <2>2 DEF Reaction
<1>2. CASE k.state = "delayAtBeacon"
  <2>1. KbdOK(Goto(k, "delayAtBeaconNum").kbd)
    BY <1>2, GotoOK DEF KbdStates, Delaying
  <2> QED
    BY <1>2, <2>1, IgnoredOK DEF Reaction
<1>3. CASE k.state = "delayAtBeaconNum"
  BY <1>3, OnBeaconNumOK DEF Reaction
<1> QED
  BY <1>1, <1>2, <1>3 DEF Delaying

LEMMA ReactionOK ==
  ASSUME NEW k, KbdOK(k), NEW ch
  PROVE  KbdOK(Reaction(k, ch).kbd)
<1>1. CASE k.state \in Delaying
  BY <1>1, OnDelayOK
<1>2. CASE k.state \in {"idle", "plane", "turn", "alt"}
  BY <1>2, OnIdleOK, OnPlaneOK, OnTurnOK, OnAltOK DEF Reaction, Delaying
<1>3. CASE k.state \in {"turnLeftAmt", "turnRightAmt", "altClimb", "altDescend"}
  BY <1>3, OnAmountOK, OnAltRelativeOK DEF Reaction
<1>4. CASE k.state \in {"towards", "towardBeacon", "towardExit", "towardAirport"}
  BY <1>4, OnTowardsOK, ResolveTowardOK DEF Reaction
<1> QED
  BY <1>1, <1>2, <1>3, <1>4 DEF KbdOK, KbdStates, Delaying

LEMMA InitKbd == ScreenInit => KbdOK(kbd)
  BY IdleOK DEF ScreenInit

LEMMA KbdInductive == KbdOK(kbd) /\ [ScreenNext]_allVars => KbdOK(kbd)'
<1> SUFFICES ASSUME KbdOK(kbd), [ScreenNext]_allVars PROVE KbdOK(kbd')
  OBVIOUS
<1>1. ASSUME NEW ch \in Keys, KeyChar(ch)
      PROVE  KbdOK(kbd')
  BY <1>1, ReactionOK DEF KeyChar
<1>2. CASE KeyEscape \/ KeyEnterPartial
  BY <1>2, IdleOK DEF KeyEscape, KeyEnterPartial
<1>3. CASE Load \/ Refresh \/ SelectMap \/ DialogNewGame
  BY <1>3 DEF Load, Refresh, SelectMap, DialogNewGame, Restart
<1>4. CASE Back \/ DialogMainMenu \/ TimerFires \/ TickButton \/ OldTickButton
             \/ Frame \/ KeyEnterIdle
  BY <1>4
  DEF Back, DialogMainMenu, TimerFires, TickButton, OldTickButton, Frame, KeyEnterIdle
<1>5. CASE SelectPlane \/ DismissPanel \/ BackToTop \/ OpenMenu
  BY <1>5 DEF SelectPlane, DismissPanel, BackToTop, OpenMenu, OnlyPanel
<1>6. ASSUME NEW mode, OpenPanel(mode)
      PROVE  KbdOK(kbd')
  BY <1>6 DEF OpenPanel, OnlyPanel
<1>7. ASSUME NEW c, SendCommand(c)
      PROVE  KbdOK(kbd')
  BY <1>7 DEF SendCommand
<1>8. CASE UNCHANGED allVars
  BY <1>8 DEF allVars, uiVars
<1> QED
  BY <1>1, <1>2, <1>3, <1>4, <1>5, <1>6, <1>7, <1>8 DEF ScreenNext

(* However a command is typed, cancelled, executed or cut short by a new    *)
(* game, it is kept exactly as long as a delay may follow it                *)
(* (atc_screen.dart:151 to 307).                                            *)
THEOREM PendingOnlyForDelay == ScreenSpec => []PendingWhileDelaying
<1>1. KbdOK(kbd) => PendingWhileDelaying
  BY DEF KbdOK, PendingWhileDelaying, Delaying
<1> QED
  BY <1>1, InitKbd, KbdInductive, PTL DEF ScreenSpec

------------------------------------------------------------------------------
(* The commands the keyboard sends *)

(* Out of idle the keyboard has the label of a plane, and a command it      *)
(* keeps is one that may be delayed, for that plane.                        *)
Kept(k) ==
  /\ KbdOK(k)
  /\ k.state # "idle" => k.label \in Labels
  /\ k.pending # NoCommand =>
       k.pending \in DelayableCommand /\ k.pending.label = k.label

Fine(r) == Kept(r.kbd) /\ (r.cmd = NoCommand \/ r.cmd \in Command)

LEMMA IdleKept == Kept(IdleKbd)
  BY IdleOK DEF Kept, IdleKbd

LEMMA GotoFine ==
  ASSUME NEW k, Kept(k), k.state # "idle",
         NEW s \in KbdStates, s \in Delaying <=> k.state \in Delaying
  PROVE  Fine(Goto(k, s))
<1>1. KbdOK(Goto(k, s).kbd)
  BY GotoOK DEF Kept
<1>2. Goto(k, s).kbd.label = k.label /\ Goto(k, s).kbd.pending = k.pending
  BY DEF Goto, Kept, KbdOK
<1>3. Goto(k, s).cmd = NoCommand
  BY DEF Goto
<1> QED
  BY <1>1, <1>2, <1>3 DEF Fine, Kept

LEMMA IgnoredFine ==
  ASSUME NEW k, Kept(k)
  PROVE  Fine(Ignored(k))
<1>1. KbdOK(Ignored(k).kbd)
  BY IgnoredOK DEF Kept
<1>2. /\ Ignored(k).kbd.label = k.label /\ Ignored(k).kbd.pending = k.pending
      /\ Ignored(k).kbd.state = k.state
  BY DEF Ignored, Goto, Kept, KbdOK
<1>3. Ignored(k).cmd = NoCommand
  BY DEF Ignored, Goto
<1> QED
  BY <1>1, <1>2, <1>3 DEF Fine, Kept

LEMMA ResetFine == Fine(Reset)
  BY IdleKept DEF Fine, Reset

LEMMA ExecResetFine ==
  ASSUME NEW c \in Command
  PROVE  Fine(ExecReset(c))
  BY IdleKept DEF Fine, ExecReset

LEMMA QueueDelayableFine ==
  ASSUME NEW k, Kept(k), k.state # "idle",
         NEW c \in DelayableCommand, c # NoCommand, c.label = k.label, NEW s \in Delaying
  PROVE  Fine(QueueDelayable(k, c, s))
<1>1. KbdOK(QueueDelayable(k, c, s).kbd)
  BY QueueDelayableOK DEF Kept
<1>2. /\ QueueDelayable(k, c, s).kbd.label = k.label
      /\ QueueDelayable(k, c, s).kbd.pending = c
  BY DEF QueueDelayable, Kept, KbdOK
<1>3. QueueDelayable(k, c, s).cmd = c
  BY DEF QueueDelayable
<1>4. c \in Command
  BY DEF Command
<1> QED
  BY <1>1, <1>2, <1>3, <1>4 DEF Fine, Kept

(* The commands of the machine that open the window for a delay.            *)
LEMMA CircleFine ==
  ASSUME NEW k, Kept(k), k.state # "idle"
  PROVE  Fine(QueueDelayable(k, [op |-> "circle", label |-> k.label], "delayable"))
<1>1. PICK c : c = [op |-> "circle", label |-> k.label]
  OBVIOUS
<1>2. c \in DelayableCommand /\ c.label = k.label
  BY <1>1 DEF DelayableCommand, Kept
<1>3. c # NoCommand
  BY <1>1, Circles
<1> QED
  BY <1>1, <1>2, <1>3, QueueDelayableFine DEF Delaying

LEMMA RelativeFine ==
  ASSUME NEW k, Kept(k), k.state # "idle", NEW side \in {"turnLeft", "turnRight"},
         NEW n \in 0 .. 7, NEW s \in Delaying
  PROVE  Fine(QueueDelayable(k, Relative(k, side, n), s))
<1>1. PICK c : c = Relative(k, side, n)
  OBVIOUS
<1>2. c \in DelayableCommand /\ c.label = k.label
  BY <1>1 DEF DelayableCommand, Kept, Relative
<1>3. c # NoCommand
  BY <1>1, Relatives
<1> QED
  BY <1>1, <1>2, <1>3, QueueDelayableFine

LEMMA TurnDirFine ==
  ASSUME NEW k, Kept(k), k.state # "idle", NEW d \in Dirs
  PROVE  Fine(QueueDelayable(k, [op |-> "turnDir", label |-> k.label, dir |-> d],
                             "delayable"))
<1>1. PICK c : c = [op |-> "turnDir", label |-> k.label, dir |-> d]
  OBVIOUS
<1>2. c \in DelayableCommand /\ c.label = k.label
  BY <1>1 DEF DelayableCommand, Kept
<1>3. c # NoCommand
  BY <1>1, Turns
<1> QED
  BY <1>1, <1>2, <1>3, QueueDelayableFine DEF Delaying

LEMMA TowardFine ==
  ASSUME NEW k, Kept(k), k.state # "idle", NEW f \in Fixes
  PROVE  Fine(QueueDelayable(k, [op |-> "turnToward", label |-> k.label, dest |-> f],
                             "delayable"))
<1>1. PICK c : c = [op |-> "turnToward", label |-> k.label, dest |-> f]
  OBVIOUS
<1>2. c \in DelayableCommand /\ c.label = k.label
  BY <1>1 DEF DelayableCommand, Kept
<1>3. c # NoCommand
  BY <1>1, Turns
<1> QED
  BY <1>1, <1>2, <1>3, QueueDelayableFine DEF Delaying

(* What is typed as a number or a letter is in the range of the command.    *)
LEMMA DigitRange ==
  ASSUME NEW ch, IsDigit(ch)
  PROVE  Digit(ch) \in 0 .. 9
  BY DEF IsDigit, Digit

LEMMA LetterRange ==
  /\ \A ch \in DOMAIN Heading : Heading[ch] \in Dirs
  /\ \A ch \in DOMAIN Amount : Amount[ch] \in 0 .. 7
  BY DEF Heading, Amount, Dirs

LEMMA OnIdleFine ==
  ASSUME NEW k, Kept(k), k.state = "idle", NEW ch
  PROVE  Fine(OnIdle(k, ch))
<1>1. KbdOK(OnIdle(k, ch).kbd)
  BY OnIdleOK DEF Kept, Delaying
<1>2. CASE OnIdle(k, ch) = Ignored(k)
  BY <1>2, IgnoredFine
<1>3. CASE OnIdle(k, ch) # Ignored(k)
  <2>1. PICK l \in Labels : LetterKeys[l] = ch
    BY <1>3 DEF OnIdle
  <2>2. PICK m \in Labels :
          OnIdle(k, ch) = [kbd |-> [k EXCEPT !.state = "plane", !.label = m],
                           cmd |-> NoCommand]
    BY <1>3, <2>1, Zenon DEF OnIdle
  <2>3. k.pending = NoCommand
    BY DEF Kept, KbdOK, Delaying
  <2>4. PICK named : named = [k EXCEPT !.state = "plane", !.label = m]
    OBVIOUS
  <2>5. named.label = m /\ named.pending = NoCommand
    BY <2>3, <2>4 DEF Kept, KbdOK
  <2>6. OnIdle(k, ch).kbd = named /\ OnIdle(k, ch).cmd = NoCommand
    BY <2>2, <2>4
  <2> QED
    BY <1>1, <2>5, <2>6 DEF Fine, Kept
<1> QED
  BY <1>2, <1>3

LEMMA OnPlaneFine ==
  ASSUME NEW k, Kept(k), k.state = "plane", NEW ch
  PROVE  Fine(OnPlane(k, ch))
<1>1. Fine(Goto(k, "turn")) /\ Fine(Goto(k, "alt"))
  BY GotoFine DEF KbdStates, Delaying
<1>2. \A op \in {"mark", "unmark", "ignore"} : [op |-> op, label |-> k.label] \in Command
  BY DEF Command, Kept
<1>3. \A op \in {"mark", "unmark", "ignore"} : Fine(ExecReset([op |-> op, label |-> k.label]))
  BY <1>2, ExecResetFine
<1>4. Fine(QueueDelayable(k, [op |-> "circle", label |-> k.label], "delayable"))
  BY CircleFine
<1> QED
  BY <1>1, <1>3, <1>4, IgnoredFine DEF OnPlane

LEMMA OnTurnFine ==
  ASSUME NEW k, Kept(k), k.state = "turn", NEW ch
  PROVE  Fine(OnTurn(k, ch))
<1>1. \A s \in {"turnLeftAmt", "turnRightAmt", "towards"} : Fine(Goto(k, s))
  BY GotoFine DEF KbdStates, Delaying
<1>2. \A side \in {"turnLeft", "turnRight"} :
        Fine(QueueDelayable(k, Relative(k, side, 2), "delayable"))
  BY RelativeFine DEF Delaying
<1>3. ch \in DOMAIN Heading =>
        Fine(QueueDelayable(k, [op |-> "turnDir", label |-> k.label, dir |-> Heading[ch]],
                            "delayable"))
  BY TurnDirFine, LetterRange
<1> QED
  BY <1>1, <1>2, <1>3, IgnoredFine DEF OnTurn

LEMMA OnAmountFine ==
  ASSUME NEW k, Kept(k), k.state # "idle", NEW ch, NEW side \in {"turnLeft", "turnRight"}
  PROVE  Fine(OnAmount(k, ch, side))
<1>1. \A n \in 0 .. 7 : \A s \in Delaying : Fine(QueueDelayable(k, Relative(k, side, n), s))
  BY RelativeFine
<1> QED
  BY <1>1, LetterRange DEF OnAmount, Delaying

LEMMA OnTowardsFine ==
  ASSUME NEW k, Kept(k), k.state = "towards", NEW ch
  PROVE  Fine(OnTowards(k, ch))
<1>1. \A s \in {"towardBeacon", "towardExit", "towardAirport"} : Fine(Goto(k, s))
  BY GotoFine DEF KbdStates, Delaying
<1> QED
  BY <1>1, IgnoredFine DEF OnTowards

LEMMA ResolveTowardFine ==
  ASSUME NEW k, Kept(k), k.state # "idle", NEW ch, NEW type, NEW fixes,
         {type} \X DOMAIN fixes \subseteq Fixes
  PROVE  Fine(ResolveToward(k, ch, type, fixes))
<1>1. Digit(ch) \in DOMAIN fixes =>
        Fine(QueueDelayable(k, [op |-> "turnToward", label |-> k.label,
                                dest |-> << type, Digit(ch) >>], "delayable"))
  BY TowardFine
<1> QED
  BY <1>1, IgnoredFine, ResetFine DEF ResolveToward

LEMMA OnAltFine ==
  ASSUME NEW k, Kept(k), k.state = "alt", NEW ch
  PROVE  Fine(OnAlt(k, ch))
<1>1. \A s \in {"altClimb", "altDescend"} : Fine(Goto(k, s))
  BY GotoFine DEF KbdStates, Delaying
<1>2. ASSUME IsDigit(ch)
      PROVE  [op |-> "altitude", label |-> k.label, altitude |-> Digit(ch)] \in Command
  BY <1>2, DigitRange DEF Command, Altitudes, Kept
<1>3. IsDigit(ch) =>
        Fine(ExecReset([op |-> "altitude", label |-> k.label, altitude |-> Digit(ch)]))
  BY <1>2, ExecResetFine
<1> QED
  BY <1>1, <1>3, IgnoredFine DEF OnAlt

LEMMA OnAltRelativeFine ==
  ASSUME NEW k, Kept(k), k.state # "idle", NEW ch, NEW sign \in {1, -1}
  PROVE  Fine(OnAltRelative(k, ch, sign))
<1>1. ASSUME IsDigit(ch)
      PROVE  [op |-> "altitudeRelative", label |-> k.label, delta |-> sign * Digit(ch)]
               \in Command
  <2>1. sign * Digit(ch) \in -9 .. 9
    BY <1>1, DigitRange
  <2> QED
    BY <2>1 DEF Command, Kept
<1>2. IsDigit(ch) =>
        Fine(ExecReset([op |-> "altitudeRelative", label |-> k.label,
                        delta |-> sign * Digit(ch)]))
  BY <1>1, ExecResetFine
<1> QED
  BY <1>2, IgnoredFine DEF OnAltRelative

LEMMA OnBeaconNumFine ==
  ASSUME NEW k, Kept(k), k.state = "delayAtBeaconNum", NEW ch
  PROVE  Fine(OnBeaconNum(k, ch))
<1>1. ASSUME IsDigit(ch)
      PROVE  [op |-> "withDelay", label |-> k.label, inner |-> k.pending,
              beaconNo |-> Digit(ch)] \in Command
  <2>1. Digit(ch) \in Nat
    BY <1>1, DigitRange
  <2>2. /\ k.label \in Labels
        /\ k.pending \in DelayableCommand /\ k.pending.label = k.label
    BY DEF Kept, KbdOK, Delaying
  <2> QED
    BY <2>1, <2>2 DEF Command
<1>2. IsDigit(ch) =>
        Fine(ExecReset([op |-> "withDelay", label |-> k.label, inner |-> k.pending,
                        beaconNo |-> Digit(ch)]))
  BY <1>1, ExecResetFine
<1> QED
  BY <1>2, IgnoredFine, ResetFine DEF OnBeaconNum

LEMMA OnDelayFine ==
  ASSUME NEW k, Kept(k), k.state \in Delaying, NEW ch
  PROVE  Fine(Reaction(k, ch))
<1>1. CASE k.state = "delayable"
  <2>1. Fine(Goto(k, "delayAtBeacon"))
    BY <1>1, GotoFine DEF KbdStates, Delaying
  <2>2. Fine(OnIdle(IdleKbd, ch))
    BY IdleKept, OnIdleFine DEF IdleKbd
  <2> QED
    BY <1>1, <2>1, <2>2 DEF Reaction
<1>2. CASE k.state = "delayAtBeacon"
  <2>1. Fine(Goto(k, "delayAtBeaconNum"))
    BY <1>2, GotoFine DEF KbdStates, Delaying
  <2> QED
    BY <1>2, <2>1, IgnoredFine DEF Reaction
<1>3. CASE k.state = "delayAtBeaconNum"
  BY <1>3, OnBeaconNumFine DEF Reaction
<1> QED
  BY <1>1, <1>2, <1>3 DEF Delaying

LEMMA ReactionFine ==
  ASSUME NEW k, Kept(k), NEW ch
  PROVE  Fine(Reaction(k, ch))
<1>1. CASE k.state \in Delaying
  BY <1>1, OnDelayFine
<1>2. CASE k.state \in {"idle", "plane", "turn", "alt"}
  BY <1>2, OnIdleFine, OnPlaneFine, OnTurnFine, OnAltFine DEF Reaction
<1>3. CASE k.state \in {"turnLeftAmt", "turnRightAmt"}
  BY <1>3, OnAmountFine DEF Reaction
<1>4. CASE k.state \in {"altClimb", "altDescend"}
  BY <1>4, OnAltRelativeFine DEF Reaction
<1>5. CASE k.state = "towards"
  BY <1>5, OnTowardsFine DEF Reaction
<1>6. CASE k.state \in {"towardBeacon", "towardExit", "towardAirport"}
  <2>1. /\ {"beacon"} \X DOMAIN Beacons \subseteq Fixes
        /\ {"exit"} \X DOMAIN Exits \subseteq Fixes
        /\ {"airport"} \X DOMAIN Airports \subseteq Fixes
    BY DEF Fixes, Ends
  <2> QED
    BY <1>6, <2>1, ResolveTowardFine DEF Reaction
<1> QED
  BY <1>1, <1>2, <1>3, <1>4, <1>5, <1>6 DEF Kept, KbdOK, KbdStates, Delaying

LEMMA InitKept == ScreenInit => Kept(kbd)
  BY IdleKept DEF ScreenInit

LEMMA KeptInductive == Kept(kbd) /\ [ScreenNext]_allVars => Kept(kbd)'
<1> SUFFICES ASSUME Kept(kbd), [ScreenNext]_allVars PROVE Kept(kbd')
  BY DEF Kept, KbdOK
<1>1. ASSUME NEW ch \in Keys, KeyChar(ch)
      PROVE  Kept(kbd')
  BY <1>1, ReactionFine DEF KeyChar, Fine
<1>2. CASE KeyEscape \/ KeyEnterPartial
  BY <1>2, IdleKept DEF KeyEscape, KeyEnterPartial
<1>3. CASE Load \/ Refresh \/ SelectMap \/ DialogNewGame
  BY <1>3 DEF Load, Refresh, SelectMap, DialogNewGame, Restart
<1>4. CASE Back \/ DialogMainMenu \/ TimerFires \/ TickButton \/ OldTickButton
             \/ Frame \/ KeyEnterIdle
  BY <1>4
  DEF Back, DialogMainMenu, TimerFires, TickButton, OldTickButton, Frame, KeyEnterIdle
<1>5. CASE SelectPlane \/ DismissPanel \/ BackToTop \/ OpenMenu
  BY <1>5 DEF SelectPlane, DismissPanel, BackToTop, OpenMenu, OnlyPanel
<1>6. ASSUME NEW mode, OpenPanel(mode)
      PROVE  Kept(kbd')
  BY <1>6 DEF OpenPanel, OnlyPanel
<1>7. ASSUME NEW c, SendCommand(c)
      PROVE  Kept(kbd')
  BY <1>7 DEF SendCommand
<1>8. CASE UNCHANGED allVars
  BY <1>8 DEF allVars, uiVars
<1> QED
  BY <1>1, <1>2, <1>3, <1>4, <1>5, <1>6, <1>7, <1>8 DEF ScreenNext

------------------------------------------------------------------------------
(* The screen plays the game *)

NewGame == Init'

(* What any event of the screen does to the game: a tick, a command of the  *)
(* game, the start of another game, or nothing.                             *)
Plays == Advance \/ (\E c \in Command : ApplyCommand(c)) \/ NewGame

LEMMA RestartsGame == Restart => NewGame
  BY DEF Restart, NewGame, Init

LEMMA ScreenStep ==
  ASSUME Kept(kbd), [ScreenNext]_allVars
  PROVE  [Plays]_vars
<1>1. CASE Load \/ Refresh \/ SelectMap \/ DialogNewGame
  BY <1>1, RestartsGame DEF Load, Refresh, SelectMap, DialogNewGame, Plays
<1>2. CASE TimerFires \/ TickButton
  BY <1>2 DEF TimerFires, TickButton, AdvanceGame, Plays
<1>3. CASE KeyEnterIdle
  BY <1>3 DEF KeyEnterIdle, Plays
<1>4. ASSUME NEW ch \in Keys, KeyChar(ch)
      PROVE  [Plays]_vars
  <2>1. PICK c : c = Reaction(kbd, ch).cmd
    OBVIOUS
  <2>2. Apply(c)
    BY <1>4, <2>1 DEF KeyChar
  <2>3. c = NoCommand \/ c \in Command
    BY <2>1, ReactionFine DEF Fine
  <2> QED
    BY <2>2, <2>3, Zenon DEF Apply, Plays
<1>5. ASSUME NEW c \in Taps, SendCommand(c)
      PROVE  [Plays]_vars
  BY <1>5, LayoutAssumption, Zenon DEF SendCommand, Plays
<1>6. CASE Back \/ DialogMainMenu \/ OldTickButton \/ Frame \/ KeyEscape \/ KeyEnterPartial
  BY <1>6 DEF Back, DialogMainMenu, OldTickButton, Frame, KeyEscape, KeyEnterPartial
<1>7. CASE SelectPlane \/ DismissPanel \/ BackToTop \/ OpenMenu
  BY <1>7 DEF SelectPlane, DismissPanel, BackToTop, OpenMenu, OnlyPanel
<1>8. ASSUME NEW mode, OpenPanel(mode)
      PROVE  [Plays]_vars
  BY <1>8 DEF OpenPanel, OnlyPanel
<1>9. CASE UNCHANGED allVars
  BY <1>9 DEF allVars
<1> QED
  BY <1>1, <1>2, <1>3, <1>4, <1>5, <1>6, <1>7, <1>8, <1>9 DEF ScreenNext

LEMMA PlaysSafely ==
  ASSUME IndInv, Conservation, Advance \/ (\E c \in Command : ApplyCommand(c))
  PROVE  (IndInv /\ Conservation)'
<1>1. CASE Advance
  BY <1>1, AdvanceConserves, NextIndInv DEF Next
<1>2. ASSUME NEW c \in Command, ApplyCommand(c)
      PROVE  (IndInv /\ Conservation)'
  BY <1>2, CommandStep, CommandConserves
<1> QED
  BY <1>1, <1>2

LEMMA StartsSafely == Init => IndInv /\ Conservation
  BY InitIndInv, FS_EmptySet DEF Init, Conservation, Present

LEMMA StaysSafely ==
  ASSUME IndInv, Conservation, UNCHANGED vars
  PROVE  (IndInv /\ Conservation)'
<1>1. IndInv'
  BY NextIndInv
<1>2. Conservation'
  BY DEF vars, Conservation, Present
<1> QED
  BY <1>1, <1>2

(* Whatever is typed, tapped, awaited or abandoned, and however often the   *)
(* game is started again, the screen takes the engine through its own steps *)
(* only, with commands the engine knows; so what holds of the engine with a *)
(* free player holds on the screen (atc_screen.dart:77 to 404): no two      *)
(* planes meet, labels are unique, every plane is accounted for.            *)
THEOREM ScreenFliesTheGame ==
  ScreenSpec => Init /\ [][Plays]_vars /\ [](IndInv /\ Conservation)
<1>1. ScreenInit => Init /\ Kept(kbd)
  BY InitKept DEF ScreenInit
<1>2. Kept(kbd) /\ [ScreenNext]_allVars => [Plays]_vars
  BY ScreenStep
<1>3. IndInv /\ Conservation /\ [Plays]_vars =>
        (IndInv /\ Conservation)' \/ NewGame
  BY PlaysSafely, StaysSafely DEF Plays
<1>4. NewGame => (IndInv /\ Conservation)'
  BY StartsSafely, PTL DEF NewGame
<1> QED
  BY <1>1, <1>2, <1>3, <1>4, StartsSafely, KeptInductive, PTL DEF ScreenSpec

==============================================================================
