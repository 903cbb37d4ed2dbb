---------------------------- MODULE TetrisScreen -----------------------------
(***************************************************************************)
(* The Tetris screen (class _TetrisScreenState in                          *)
(* app/lib/screens/tetris/tetris_screen.dart) around TetrisGame: the timer *)
(* that ticks at the pace of the level, the keyboard, the buttons and      *)
(* gestures, pausing, and the game-over dialogs over the screen.           *)
(***************************************************************************)
EXTENDS TetrisGame

CONSTANT MaxDialogs     \* bound: no key or button opens more at a time

VARIABLES
  open,        \* whether the screen is mounted
  period,      \* milliseconds of the live timer, 0 when there is none
  dialogs,     \* number of game-over dialogs over the screen
  focused,     \* whether key events reach the game: as of the last frame
  dropLive     \* whether the DROP button of the last frame is enabled

screenVars == << open, period, dialogs, focused, dropLive >>
allVars == << gameVars, screenVars >>

------------------------------------------------------------------------------

ASSUME DialogBound == MaxDialogs \in Nat \ {0}

TickMs(lvl) ==
  LET ms == 800 - (lvl - 1) * 72 IN IF ms > 80 THEN ms ELSE 80

Unless(cond, A) == IF cond THEN UNCHANGED gameVars ELSE A

Touchable == open /\ dialogs = 0

(* _showGameOver after the timer is cancelled.                             *)
ShowGameOver == period' = 0 /\ dialogs' = dialogs + 1

(* The timer ticks the game, is replaced when the level changed, and stops *)
(* when the game is over.                                                  *)
TimerFires ==
  /\ open /\ period # 0
  /\ Unless(status # "playing", Tick)
  /\ IF status' = "gameOver"
     THEN ShowGameOver
     ELSE /\ period' = IF level' # level THEN TickMs(level') ELSE period
          /\ UNCHANGED dialogs
  /\ UNCHANGED << open, focused, dropLive >>

(* Arrow keys and gestures: no move needs a look at the outcome.           *)
Steer ==
  /\ open /\ (focused \/ dialogs = 0)
  /\ (\E dc \in {-1, 1} : Move(dc)) \/ Rotate \/ SoftDrop
  /\ UNCHANGED screenVars

(* Variant: a hard drop that ends the game only stops the timer.           *)
DropQuietly ==
  /\ dialogs < MaxDialogs
  /\ Unless(status # "playing", HardDrop)
  /\ period' = IF status' = "gameOver" THEN 0 ELSE period
  /\ UNCHANGED << open, dialogs, focused, dropLive >>

Drop ==
  /\ dialogs < MaxDialogs
  /\ Unless(status # "playing", HardDrop)
  /\ IF status' = "gameOver" THEN ShowGameOver ELSE UNCHANGED << period, dialogs >>
  /\ UNCHANGED << open, focused, dropLive >>

KeySpace == open /\ focused /\ Drop

DropButton == Touchable /\ dropLive /\ Drop

(* Variant: the timer of a paused game is not cancelled.                   *)
PauseOnly ==
  /\ Unless(status = "gameOver", TogglePause)
  /\ period' = IF status' = "playing" THEN TickMs(level) ELSE period
  /\ UNCHANGED << open, dialogs, focused, dropLive >>

Pause ==                                  \* key P and the app bar's button
  /\ Unless(status = "gameOver", TogglePause)
  /\ period' = IF status' = "playing" THEN TickMs(level) ELSE 0
  /\ UNCHANGED << open, dialogs, focused, dropLive >>

PressPause == open /\ (focused \/ dialogs = 0) /\ Pause

(* Variant: a new game goes on with the timer there is.                    *)
StartOnOldTimer ==
  NewGame /\ period' = IF period = 0 THEN TickMs(level') ELSE period

StartNewGame == NewGame /\ period' = TickMs(level')

Refresh ==
  /\ Touchable
  /\ StartNewGame
  /\ UNCHANGED << open, dialogs, focused, dropLive >>

PlayAgain ==
  /\ open /\ dialogs > 0
  /\ dialogs' = dialogs - 1
  /\ StartNewGame
  /\ UNCHANGED << open, focused, dropLive >>

Dispose == open' = FALSE /\ period' = 0

(* Two pops: the dialog, and the dialog or the screen below it.            *)
MainMenu ==
  /\ open /\ dialogs > 0
  /\ IF dialogs = 1 THEN Dispose /\ dialogs' = 0
                    ELSE dialogs' = dialogs - 2 /\ UNCHANGED << open, period >>
  /\ UNCHANGED << gameVars, focused, dropLive >>

Back ==                                   \* the system's back gesture
  /\ open
  /\ IF dialogs = 0 THEN Dispose /\ UNCHANGED dialogs
                    ELSE dialogs' = dialogs - 1 /\ UNCHANGED << open, period >>
  /\ UNCHANGED << gameVars, focused, dropLive >>

(* A frame rebuilds the buttons and gives the focus to the top route.      *)
Frame ==
  /\ open
  /\ focused' = (dialogs = 0)
  /\ dropLive' = (status = "playing")
  /\ UNCHANGED << gameVars, open, period, dialogs >>

------------------------------------------------------------------------------

ScreenInit ==
  /\ Init
  /\ open = TRUE /\ period = TickMs(1) /\ dialogs = 0
  /\ focused = FALSE /\ dropLive = FALSE

ScreenNext ==
  \/ TimerFires \/ Steer \/ KeySpace \/ DropButton \/ PressPause
  \/ Refresh \/ PlayAgain \/ MainMenu \/ Back \/ Frame

ScreenSpec == ScreenInit /\ [][ScreenNext]_allVars

------------------------------------------------------------------------------
(* Properties *)

(* The timer is live exactly while an open screen plays: pausing, a game   *)
(* that ends by any of its three drops, restarts and leaving agree on it,  *)
(* and no level asks for a timer without a period.                         *)
TimerIffPlaying == period > 0 <=> open /\ status = "playing"

(* The end of a game is announced, whether a tick, the space bar or the    *)
(* DROP button locked the last piece.                                      *)
GameOverAnnounced ==
  [][status # "gameOver" /\ status' = "gameOver" => dialogs' > dialogs]_allVars

(* The game never runs faster than its level: the pace of an earlier game  *)
(* or level is not carried over to a lower one.                            *)
NeverTooFast == period # 0 => period >= TickMs(level)

==============================================================================
