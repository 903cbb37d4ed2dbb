------------------------------ MODULE AtcScreen ------------------------------
(***************************************************************************)
(* The screen of the air traffic control game (class _AtcScreenState in    *)
(* app/lib/screens/atc/atc_screen.dart) around the engine of AtcGame: the  *)
(* keyboard's command state machine, the command panel, the periodic       *)
(* timer, the frames that rebuild the screen and run the callbacks queued  *)
(* for them, and the routes (map menu, end-of-game dialogs) stacked over   *)
(* the screen.  Events of the Dart event loop interleave in any order;     *)
(* each is one action.                                                     *)
(*                                                                         *)
(* A map change restarts the game like a refresh, on the one scenario of   *)
(* the constants.  Two taps between two frames may leave the player with   *)
(* buttons built for a game that has been replaced: the Tick button of     *)
(* that game is modelled, its plane and command buttons are left out.      *)
(***************************************************************************)
EXTENDS AtcGame, SequencesExt

CONSTANTS
  Keys,        \* what the player types: characters, "Enter", "Escape"
  Taps,        \* the commands the player sends with the panel's buttons
  Layout,      \* "wide" or "narrow"
  Menu,        \* whether the player opens the map menu
  MaxGames,    \* bound: no game is started after this many
  MaxQueued    \* bound: callbacks a Tick press may add to one frame

VARIABLES
  screen,     \* "loading", "open" or "closed"
  games,      \* number of games started
  timer,      \* whether _timer is live
  kbd,        \* _kbdState, the label that starts _kbdBuffer, _pendingCmd
  panel,      \* _selectedLabel (0 for null) and _panelMode
  queued,     \* _showEndDialog calls waiting for the end of the frame
  tick,       \* the Tick button of the last frame: "none" (absent or
              \* disabled), "current", or "old" (of a game since replaced)
  routes,     \* what lies over the screen, bottom first
  announced   \* history: _showEndDialog calls queued for this game

uiVars == << screen, games, timer, kbd, panel, queued, tick, routes,
             announced >>
allVars == << vars, uiVars >>

------------------------------------------------------------------------------

ASSUME LayoutAssumption ==
  Layout \in {"wide", "narrow"} /\ Menu \in BOOLEAN /\ Taps \subseteq Command
ASSUME ScreenBounds == MaxGames \in Nat \ {0} /\ MaxQueued \in Nat \ {0}

LetterKeys ==
  << "a", "b", "c", "d", "e", "f", "g", "h", "i", "j", "k", "l", "m",
     "n", "o", "p", "q", "r", "s", "t", "u", "v", "w", "x", "y", "z" >>

DigitKeys == << "0", "1", "2", "3", "4", "5", "6", "7", "8", "9" >>

IsDigit(ch) == \E n \in 0 .. 9 : DigitKeys[n + 1] = ch

Digit(ch) == CHOOSE n \in 0 .. 9 : DigitKeys[n + 1] = ch

Heading ==        \* absolute directions
  [w |-> 0, e |-> 1, d |-> 2, c |-> 3, x |-> 4, z |-> 5, a |-> 6, q |-> 7]

Amount ==         \* amounts of a relative turn: `a' starts a delay instead
  [w |-> 0, e |-> 1, d |-> 2, c |-> 3, x |-> 4, z |-> 5, q |-> 7]

NoCommand == [op |-> "none"]
IdleKbd == [state |-> "idle", label |-> 0, pending |-> NoCommand]
NoPanel == [selected |-> 0, mode |-> "none"]

Named(l) == {p \in Present(planes) : p.label = l}

PlaneByLabel(l) == First(Named(l))

------------------------------------------------------------------------------
(* Keyboard: what a character does in a state of the machine, as the next  *)
(* state of the keyboard and the command that is applied at once.          *)

Goto(k, s) == [kbd |-> [k EXCEPT !.state = s], cmd |-> NoCommand]

Ignored(k) == Goto(k, k.state)

Reset == [kbd |-> IdleKbd, cmd |-> NoCommand]

ExecReset(c) == [kbd |-> IdleKbd, cmd |-> c]

(* _queueDelayable applies the command and opens the window for a delay;   *)
(* `tla' and `tra' go straight on to the delay.                            *)
QueueDelayable(k, c, s) ==
  [kbd |-> [k EXCEPT !.state = s, !.pending = c], cmd |-> c]

OnIdle(k, ch) ==
  IF \E l \in Labels : LetterKeys[l] = ch /\ Named(l) # {}
                         /\ IsAirborne(PlaneByLabel(l))
  THEN [kbd |-> [k EXCEPT !.state = "plane",
                          !.label = CHOOSE l \in Labels : LetterKeys[l] = ch],
        cmd |-> NoCommand]
  ELSE Ignored(k)

OnPlane(k, ch) ==
  CASE ch = "t" -> Goto(k, "turn")
    [] ch = "a" -> Goto(k, "alt")
    [] ch = "c" -> QueueDelayable(k, [op |-> "circle", label |-> k.label],
                                  "delayable")
    [] ch = "m" -> ExecReset([op |-> "mark", label |-> k.label])
    [] ch = "u" -> ExecReset([op |-> "unmark", label |-> k.label])
    [] ch = "i" -> ExecReset([op |-> "ignore", label |-> k.label])
    [] OTHER    -> Ignored(k)

Relative(k, side, n) == [op |-> side, label |-> k.label, steps |-> n]

OnTurn(k, ch) ==
  CASE ch \in {"l", "-"} -> Goto(k, "turnLeftAmt")
    [] ch \in {"r", "+"} -> Goto(k, "turnRightAmt")
    [] ch = "L" -> QueueDelayable(k, Relative(k, "turnLeft", 2), "delayable")
    [] ch = "R" -> QueueDelayable(k, Relative(k, "turnRight", 2), "delayable")
    [] ch = "t" -> Goto(k, "towards")
    [] ch \in DOMAIN Heading ->
         QueueDelayable(k, [op |-> "turnDir", label |-> k.label,
                            dir |-> Heading[ch]], "delayable")
    [] OTHER -> Ignored(k)

OnAmount(k, ch, side) ==
  CASE ch \in DOMAIN Amount ->
         QueueDelayable(k, Relative(k, side, Amount[ch]), "delayable")
    [] ch \in {"a", "@"} ->
         QueueDelayable(k, Relative(k, side, 1), "delayAtBeacon")
    [] OTHER -> QueueDelayable(k, Relative(k, side, 1), "delayable")

OnTowards(k, ch) ==
  CASE ch \in {"b", "*"} -> Goto(k, "towardBeacon")
    [] ch = "e"          -> Goto(k, "towardExit")
    [] ch = "a"          -> Goto(k, "towardAirport")
    [] OTHER             -> Ignored(k)

ResolveToward(k, ch, type, fixes) ==
  CASE ~IsDigit(ch) -> Ignored(k)
    [] IsDigit(ch) /\ Digit(ch) \in DOMAIN fixes ->
         QueueDelayable(k, [op |-> "turnToward", label |-> k.label,
                            dest |-> << type, Digit(ch) >>], "delayable")
    [] OTHER -> Reset

OnAlt(k, ch) ==
  CASE IsDigit(ch) ->
         ExecReset([op |-> "altitude", label |-> k.label,
                    altitude |-> Digit(ch)])
    [] ch \in {"+", "c"} -> Goto(k, "altClimb")
    [] ch \in {"-", "d"} -> Goto(k, "altDescend")
    [] OTHER -> Ignored(k)

OnAltRelative(k, ch, sign) ==
  IF IsDigit(ch)
  THEN ExecReset([op |-> "altitudeRelative", label |-> k.label,
                  delta |-> sign * Digit(ch)])
  ELSE Ignored(k)

OnBeaconNum(k, ch) ==
  CASE ~IsDigit(ch) -> Ignored(k)
    [] IsDigit(ch) /\ Digit(ch) \in DOMAIN Beacons ->
         ExecReset([op |-> "withDelay", label |-> k.label,
                    inner |-> k.pending, beaconNo |-> Digit(ch)])
    [] OTHER -> Reset

(* _processKbdChar.  A character that does not start a delay closes the    *)
(* window and is processed again from idle.                                *)
Reaction(k, ch) ==
  CASE k.state = "idle"             -> OnIdle(k, ch)
    [] k.state = "plane"            -> OnPlane(k, ch)
    [] k.state = "turn"             -> OnTurn(k, ch)
    [] k.state = "turnLeftAmt"      -> OnAmount(k, ch, "turnLeft")
    [] k.state = "turnRightAmt"     -> OnAmount(k, ch, "turnRight")
    [] k.state = "delayable"        -> IF ch \in {"a", "@"}
                                       THEN Goto(k, "delayAtBeacon")
                                       ELSE OnIdle(IdleKbd, ch)
    [] k.state = "delayAtBeacon"    -> IF ch \in {"b", "*"}
                                       THEN Goto(k, "delayAtBeaconNum")
                                       ELSE Ignored(k)
    [] k.state = "delayAtBeaconNum" -> OnBeaconNum(k, ch)
    [] k.state = "towards"          -> OnTowards(k, ch)
    [] k.state = "towardBeacon"     -> ResolveToward(k, ch, "beacon", Beacons)
    [] k.state = "towardExit"       -> ResolveToward(k, ch, "exit", Exits)
    [] k.state = "towardAirport"    -> ResolveToward(k, ch, "airport", Airports)
    [] k.state = "alt"              -> OnAlt(k, ch)
    [] k.state = "altClimb"         -> OnAltRelative(k, ch, 1)
    [] k.state = "altDescend"       -> OnAltRelative(k, ch, -1)

------------------------------------------------------------------------------
(* Steps shared by the handlers *)

Playing == screen = "open" /\ status = "playing"

Restart ==                                        \* _startGame
  /\ odd' = FALSE /\ planes' = {} /\ safeExits' = 0
  /\ status' = "playing" /\ lossReason' = "none" /\ spawned' = 0
  /\ games' = games + 1
  /\ timer' = TRUE
  /\ panel' = NoPanel
  /\ tick' = IF tick = "none" THEN "none" ELSE "old"
  /\ announced' = 0
  /\ UNCHANGED kbd

(* Variant: a loss leaves the timer running.                               *)
ReactToLossOnly ==
  /\ UNCHANGED timer
  /\ IF status' # "playing"
     THEN queued' = queued + 1 /\ announced' = announced + 1
     ELSE UNCHANGED << queued, announced >>

(* After advance(): a lost game stops the timer and asks for the dialog at *)
(* the end of the next frame.                                              *)
ReactToLoss ==
  IF status' # "playing"
  THEN timer' = FALSE /\ queued' = queued + 1 /\ announced' = announced + 1
  ELSE UNCHANGED << timer, queued, announced >>

AdvanceGame == IF status = "playing" THEN Advance ELSE UNCHANGED vars

Apply(c) == IF c = NoCommand THEN UNCHANGED vars ELSE ApplyCommand(c)

------------------------------------------------------------------------------
(* Loading and leaving *)

Load ==                    \* _loadScenarios completes on a mounted screen
  /\ screen = "loading"
  /\ screen' = "open"
  /\ Restart
  /\ UNCHANGED << queued, routes >>

Dispose ==
  /\ screen' = "closed"
  /\ timer' = FALSE

(* The system's back gesture pops the top route, a dialog included.        *)
Back ==
  /\ screen \in {"loading", "open"}
  /\ IF routes = << >>
     THEN Dispose /\ UNCHANGED routes
     ELSE routes' = Front(routes) /\ UNCHANGED << screen, timer >>
  /\ UNCHANGED << vars, games, kbd, panel, queued, tick, announced >>

------------------------------------------------------------------------------
(* The clock *)

TimerFires ==
  /\ screen = "open" /\ timer
  /\ AdvanceGame
  /\ ReactToLoss
  /\ UNCHANGED << screen, games, kbd, panel, tick, routes >>

(* The Tick button of the last frame ticks the game it was built for, even *)
(* after the timer has lost that game.                                     *)
TickButton ==
  /\ screen = "open" /\ routes = << >>
  /\ tick = "current"
  /\ queued < MaxQueued
  /\ AdvanceGame
  /\ ReactToLoss
  /\ UNCHANGED << screen, games, kbd, panel, tick, routes >>

(* Built for a game that has been replaced, it ticks that game, which no   *)
(* longer shows; the press that finds it lost, or makes it so, cancels the *)
(* timer there is now.  Whether the replaced game is lost is left open.    *)
OldTickButton ==
  /\ screen = "open" /\ routes = << >>
  /\ tick = "old"
  /\ queued < MaxQueued
  /\ timer' = FALSE /\ queued' = queued + 1
  /\ UNCHANGED << vars, screen, games, kbd, panel, tick, routes, announced >>

(* Variant: a panel that lost its plane is left alone.                     *)
KeepPanel == UNCHANGED panel

(* In the narrow layout a build that finds no plane for the selected label *)
(* queues the dismissal of the panel.                                      *)
RefreshPanel ==
  panel' = IF Layout = "narrow" /\ panel.selected # 0
                                /\ Named(panel.selected) = {}
           THEN NoPanel ELSE panel

(* The wide layout has a Tick button, enabled while the game is on.        *)
BuildTick ==
  tick' = IF Layout = "wide" /\ status = "playing" THEN "current" ELSE "none"

(* Variant: a dialog is opened only when nothing lies over the screen.     *)
FrameUncovered ==
  /\ screen = "open"
  /\ BuildTick
  /\ RefreshPanel
  /\ routes' = IF routes = << >> /\ queued > 0 THEN << "dialog" >> ELSE routes
  /\ queued' = 0
  /\ UNCHANGED << vars, screen, games, timer, kbd, announced >>

(* A frame rebuilds the screen, then runs the callbacks queued for it; the *)
(* dialogs they open show the loss of the game there is by then.           *)
Frame ==
  /\ screen = "open"
  /\ BuildTick
  /\ RefreshPanel
  /\ routes' = routes \o [n \in 1 .. queued |-> "dialog"]
  /\ queued' = 0
  /\ UNCHANGED << vars, screen, games, timer, kbd, announced >>

------------------------------------------------------------------------------
(* Keyboard events reach the screen whatever route lies over it. *)

KeyEscape ==
  /\ Playing /\ "Escape" \in Keys
  /\ kbd' = IdleKbd
  /\ UNCHANGED << vars, screen, games, timer, panel, queued, tick, routes,
                  announced >>

KeyEnterIdle ==                                   \* fast-forward one tick
  /\ Playing /\ "Enter" \in Keys /\ kbd.state = "idle"
  /\ Advance
  /\ ReactToLoss
  /\ UNCHANGED << screen, games, kbd, panel, tick, routes >>

(* Variant: a cancelled command keeps the command it would have delayed.   *)
KeyEnterKeepsPending ==
  /\ Playing /\ "Enter" \in Keys /\ kbd.state # "idle"
  /\ kbd' = [kbd EXCEPT !.state = "idle", !.label = 0]
  /\ UNCHANGED << vars, screen, games, timer, panel, queued, tick, routes,
                  announced >>

KeyEnterPartial ==                                \* cancel partial command
  /\ Playing /\ "Enter" \in Keys /\ kbd.state # "idle"
  /\ kbd' = IdleKbd
  /\ UNCHANGED << vars, screen, games, timer, panel, queued, tick, routes,
                  announced >>

Selects(k, r) == r.kbd.state = "plane" /\ k.state \in {"idle", "delayable"}

KeyChar(ch) ==
  /\ Playing
  /\ LET r == Reaction(kbd, ch)
     IN  /\ kbd' = r.kbd
         /\ Apply(r.cmd)
         /\ panel' = IF Selects(kbd, r)
                     THEN [selected |-> r.kbd.label, mode |-> "top"] ELSE panel
  /\ UNCHANGED << screen, games, timer, queued, tick, routes, announced >>

------------------------------------------------------------------------------
(* Taps reach the screen when nothing lies over it. *)

Touchable == screen = "open" /\ routes = << >>

OnlyPanel == UNCHANGED << vars, screen, games, timer, kbd, queued, tick,
                          routes, announced >>

SelectPlane ==                                    \* a chip, a row, the radar
  /\ Touchable /\ Taps # {}
  /\ \E p \in Present(planes) : panel' = [selected |-> p.label, mode |-> "top"]
  /\ OnlyPanel

DismissPanel ==
  /\ Touchable
  /\ panel.selected # 0
  /\ panel' = NoPanel
  /\ OnlyPanel

PanelShown ==
  /\ Touchable
  /\ panel.selected # 0 /\ Named(panel.selected) # {}
  /\ Layout = "narrow" => panel.mode # "none"

TopShown == PanelShown /\ panel.mode \in {"none", "top"}

OpenPanel(mode) ==
  /\ TopShown
  /\ panel' = [panel EXCEPT !.mode = mode]
  /\ OnlyPanel

BackToTop ==
  /\ PanelShown /\ ~TopShown
  /\ panel' = [panel EXCEPT !.mode = "top"]
  /\ OnlyPanel

(* Where the button of a command is.                                       *)
Offered(c) ==
  CASE c.op = "altitude"   -> PanelShown /\ panel.mode = "altitude"
    [] c.op = "turnDir"    -> PanelShown /\ panel.mode = "turn"
    [] c.op = "turnToward" -> PanelShown /\ panel.mode = "goTo"
    [] c.op = "circle"     -> \/ PanelShown /\ panel.mode = "turn"
                              \/ TopShown /\ Layout = "wide"
    [] c.op = "ignore"     ->
         TopShown /\ PlaneByLabel(panel.selected).status # "ignored"
    [] c.op = "unmark"     ->
         TopShown /\ PlaneByLabel(panel.selected).status = "ignored"
    [] OTHER -> FALSE

SendCommand(c) ==
  /\ c.label = panel.selected
  /\ Offered(c)
  /\ ApplyCommand(c)
  /\ panel' = [panel EXCEPT !.mode = "top"]
  /\ UNCHANGED << screen, games, timer, kbd, queued, tick, routes, announced >>

------------------------------------------------------------------------------
(* New games: the app bar, the map menu and the dialog *)

Refresh ==
  /\ Touchable /\ games < MaxGames
  /\ Restart
  /\ UNCHANGED << screen, queued, routes >>

OpenMenu ==
  /\ Touchable /\ Menu
  /\ routes' = << "menu" >>
  /\ UNCHANGED << vars, screen, games, timer, kbd, panel, queued, tick,
                  announced >>

Over(route) == routes # << >> /\ Last(routes) = route

SelectMap ==
  /\ Over("menu") /\ games < MaxGames
  /\ Restart
  /\ routes' = Front(routes)
  /\ UNCHANGED << screen, queued >>

DialogNewGame ==
  /\ screen = "open" /\ Over("dialog") /\ games < MaxGames
  /\ Restart
  /\ routes' = Front(routes)
  /\ UNCHANGED << screen, queued >>

(* Two pops: the dialog and whatever lies below it, the screen if nothing. *)
DialogMainMenu ==
  /\ screen = "open" /\ Over("dialog")
  /\ IF Len(routes) = 1
     THEN Dispose /\ routes' = << >>
     ELSE routes' = Front(Front(routes)) /\ UNCHANGED << screen, timer >>
  /\ UNCHANGED << vars, games, kbd, panel, queued, tick, announced >>

------------------------------------------------------------------------------

ScreenInit ==
  /\ Init
  /\ screen = "loading" /\ games = 0 /\ timer = FALSE
  /\ kbd = IdleKbd /\ panel = NoPanel
  /\ queued = 0 /\ tick = "none" /\ routes = << >>
  /\ announced = 0

ScreenNext ==
  \/ Load \/ Back
  \/ TimerFires \/ TickButton \/ OldTickButton \/ Frame
  \/ KeyEscape \/ KeyEnterIdle \/ KeyEnterPartial
  \/ \E ch \in Keys \ {"Enter", "Escape"} : KeyChar(ch)
  \/ SelectPlane \/ DismissPanel \/ BackToTop
  \/ \E mode \in {"altitude", "turn", "goTo"} : OpenPanel(mode)
  \/ \E c \in Taps : SendCommand(c)
  \/ Refresh \/ OpenMenu \/ SelectMap \/ DialogNewGame \/ DialogMainMenu

ScreenSpec == ScreenInit /\ [][ScreenNext]_allVars

(* Flutter produces a frame after every setState.                          *)
FairScreenSpec == ScreenSpec /\ WF_allVars(Frame)

------------------------------------------------------------------------------
(* Properties *)

Untimed == Playing /\ ~timer

(* A live timer has a game on an open screen to tick.  A game starts with  *)
(* its timer and keeps it until it is lost or the screen is left, whoever  *)
(* makes the losing tick and however games follow one another: only a      *)
(* press of the Tick button of the game it replaced takes it away.         *)
TimerFollowsGame ==
  /\ [](timer => Playing)
  /\ [][Untimed' => /\ games' = games
                    /\ Untimed \/ tick = "old"]_allVars

(* Every loss asks for the dialog exactly once, whoever made the last tick *)
(* ("touch equivalent of pressing Enter", says the Tick button's comment,  *)
(* and Enter does nothing once a game is lost).                            *)
AnnouncedOnce ==
  screen = "open" => announced = IF status = "lost" THEN 1 ELSE 0

(* A dialog that was asked for opens, also when a new game or the map menu *)
(* came between the loss and the frame.                                    *)
LossIsShown ==
  screen = "open" /\ queued > 0
    ~> screen = "closed" \/ (\E n \in DOMAIN routes : routes[n] = "dialog")

(* A command is kept for a delay exactly in the states of the machine that *)
(* lead to one: it never survives a reset into the next command.           *)
PendingWhileDelaying ==
  kbd.pending # NoCommand
    <=> kbd.state \in {"delayable", "delayAtBeacon", "delayAtBeaconNum"}

(* In the narrow layout the panel does not stay on a plane that has left,  *)
(* unless its label is given to a new plane first.                         *)
StaleSelectionDropped ==
  panel.selected # 0 /\ Named(panel.selected) = {}
    ~> panel.selected = 0 \/ Named(panel.selected) # {} \/ screen = "closed"

==============================================================================
