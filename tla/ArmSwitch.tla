------------------------------ MODULE ArmSwitch ------------------------------
(***************************************************************************)
(* The radio node (elrs_interface) with its ArmSwitch, and the flight      *)
(* controller (FC) at the other end.  The switch is held low before every  *)
(* edge, what the FC's flight-mode frames say judges the attempt, and a    *)
(* refused attempt is made again with a fresh edge:                        *)
(*                                                                         *)
(*    off --> pre_low --> high --FC says armed--> armed                    *)
(*                        |  ^--- retry_low                                *)
(*                        |         ^                                      *)
(*                        +--says disarmed--> (again, or) failed           *)
(*                        +--says nothing--> unconfirmed                   *)
(*                                                                         *)
(* The FC sees the switch once a tick, arms or refuses on a rising edge    *)
(* only (a refusal latches until the next edge), disarms on a low switch,  *)
(* and may disarm itself.  It sends a frame when it likes; a frame takes   *)
(* at most Delay ticks or is lost.                                         *)
(***************************************************************************)
EXTENDS Naturals

CONSTANTS
  PreLow, RetryLow,      \* PRE_LOW_S, RETRY_LOW_S, in ticks, as all below
  Confirm, ConfirmMax,   \* CONFIRM_S, CONFIRM_MAX_S
  EdgeSettle,            \* EDGE_SETTLE_S
  ModeFresh,             \* MODE_FRESH_S
  MaxTries,              \* MAX_TRIES
  Silence,               \* the radio's 0.5 s without a command
  Delay                  \* of the telemetry link

ASSUME SwitchAssumption ==
  /\ {PreLow, RetryLow, MaxTries} \subseteq Nat \ {0}
  /\ {Confirm, ConfirmMax, EdgeSettle, ModeFresh, Silence, Delay} \subseteq Nat
  /\ Delay < EdgeSettle /\ EdgeSettle <= Confirm /\ Confirm <= ConfirmMax
  /\ Delay < PreLow /\ PreLow <= ConfirmMax
  /\ Delay < RetryLow /\ RetryLow <= ConfirmMax

VARIABLES
  want,          \* elrs_interface.armed
  silent,        \* ticks since the last command
  phase, since, tries,
  mode, mode_age,\* what the last frame said, and its age
  mode_edge,     \* when it came: "before" the edge, "early", "settled"
  switch, state, \* the arm channel, and the reported fc_arm_state
  due,           \* the radio's timer has not run since the last tick
  fc, fc_switch, \* the FC: armed, and the switch it last saw
  answer,        \* history: the FC's answer to the switch's last edge
  air, air_age   \* a frame on the way

cmdVars == <<want, silent>>
attemptVars == <<phase, since, tries>>
modeVars == <<mode, mode_age, mode_edge>>
outVars == <<switch, state>>
fcVars == <<fc, fc_switch>>
airVars == <<air, air_age>>
switchVars == <<cmdVars, attemptVars, modeVars, outVars, due, fcVars, answer,
                airVars>>

Phases == {"off", "pre_low", "high", "retry_low", "armed", "failed",
           "unconfirmed"}
States == {"disarmed", "pending", "armed", "unconfirmed", "failed"}
Frames == {"none", "armed", "disarmed"}

SwitchTypeOK ==
  /\ want \in BOOLEAN /\ silent \in 0 .. Silence + 1
  /\ phase \in Phases /\ since \in 0 .. ConfirmMax /\ tries \in 0 .. MaxTries
  /\ mode \in Frames /\ mode_age \in 0 .. ModeFresh + 1
  /\ mode_edge \in {"before", "early", "settled"}
  /\ switch \in BOOLEAN /\ state \in States
  /\ due \in BOOLEAN
  /\ fc \in BOOLEAN /\ fc_switch \in BOOLEAN
  /\ answer \in {"none", "armed", "refused"}
  /\ air \in Frames /\ air_age \in 0 .. Delay

SwitchInit ==
  /\ want = FALSE /\ silent = 0
  /\ phase = "off" /\ since = 0 /\ tries = 0
  /\ mode = "none" /\ mode_age = ModeFresh + 1 /\ mode_edge = "before"
  /\ switch = FALSE /\ state = "disarmed"
  /\ due = FALSE
  /\ fc = FALSE /\ fc_switch = FALSE /\ answer = "none"
  /\ air = "none" /\ air_age = 0

-----------------------------------------------------------------------------
Capped(n, cap) == IF n < cap THEN n + 1 ELSE cap

(* controller_commands_callback: the mux's stream.                         *)
Hear(b) ==
  /\ want' = b /\ silent' = 0
  /\ UNCHANGED <<attemptVars, modeVars, outVars, due, fcVars, answer, airVars>>

(* A flight-mode frame is read; the attempt is judged only by frames that  *)
(* came after its own edge.                                                *)
(* Mutant: a frame speaks for the attempt from the edge on.                *)
WhenUnsettled == "settled"
When == IF since < EdgeSettle THEN "early" ELSE "settled"

FrameArrives ==
  /\ air # "none"
  /\ mode' = air /\ mode_age' = 0 /\ mode_edge' = When
  /\ air' = "none" /\ air_age' = 0
  /\ UNCHANGED <<cmdVars, attemptVars, outVars, due, fcVars, answer>>

-----------------------------------------------------------------------------
(* ArmSwitch.update.                                                       *)
FreshSays(m) == mode = m /\ mode_age <= ModeFresh

(* An "armed" counts from the edge on, a "disarmed" once the FC has had    *)
(* the edge.                                                               *)
(* Mutant: the last frame speaks, whenever it came.                        *)
EdgeSaysLast(m) == mode = m
EdgeSays(m) ==
  /\ mode = m
  /\ mode_edge = "settled" \/ (m = "armed" /\ mode_edge = "early")

Goes(p, n, high, s) ==
  /\ phase' = p /\ tries' = n /\ switch' = high /\ state' = s
  /\ UNCHANGED since
Starts(p, n, high) ==
  /\ phase' = p /\ tries' = n /\ switch' = high /\ state' = "pending"
  /\ since' = 0

UpdateOff ==
  ~want' /\ Goes("off", 0, FALSE, "disarmed")

UpdateStarts ==
  want' /\ phase = "off" /\ Starts("pre_low", tries, FALSE)

UpdatePreLow ==
  /\ want' /\ phase = "pre_low"
  /\ IF since < PreLow THEN Goes("pre_low", tries, FALSE, "pending")
     ELSE Starts("high", 1, TRUE)

(* Mutant: the attempts are not counted.                                   *)
RetryUncounted ==
  /\ want' /\ phase = "retry_low"
  /\ IF since < RetryLow THEN Goes("retry_low", tries, FALSE, "pending")
     ELSE Starts("high", tries, TRUE)
UpdateRetryLow ==
  /\ want' /\ phase = "retry_low"
  /\ IF since < RetryLow THEN Goes("retry_low", tries, FALSE, "pending")
     ELSE Starts("high", tries + 1, TRUE)

(* Confirmed; refused, with an attempt left or without; not answered; or   *)
(* still open.                                                             *)
Refused == EdgeSays("disarmed") /\ since >= Confirm
TriesLeft == tries < MaxTries
UpdateHigh ==
  /\ want' /\ phase \in {"high", "unconfirmed"}
  /\ \/ EdgeSays("armed")
        /\ Goes("armed", tries, TRUE, "armed")
     \/ ~EdgeSays("armed") /\ Refused /\ TriesLeft
        /\ Starts("retry_low", tries, FALSE)
     \/ ~EdgeSays("armed") /\ Refused /\ ~TriesLeft
        /\ Goes("failed", tries, TRUE, "failed")
     \/ ~EdgeSays("armed") /\ ~Refused /\ since >= ConfirmMax
        /\ Goes("unconfirmed", tries, TRUE, "unconfirmed")
     \/ ~EdgeSays("armed") /\ ~Refused /\ since < ConfirmMax
        /\ Goes(phase, tries, TRUE, "pending")

(* Once confirmed the switch stays high; a fresh "disarmed" is reported.   *)
(* Mutant: a confirmed arm is never looked at again.                       *)
ArmedForGood ==
  want' /\ phase = "armed" /\ Goes("armed", tries, TRUE, "armed")
UpdateArmed ==
  /\ want' /\ phase = "armed"
  /\ Goes("armed", tries, TRUE,
          IF FreshSays("disarmed") THEN "failed" ELSE "armed")

(* The switch stays high: a late arm still shows.                          *)
UpdateFailed ==
  /\ want' /\ phase = "failed"
  /\ IF EdgeSays("armed") THEN Goes("armed", tries, TRUE, "armed")
     ELSE Goes("failed", tries, TRUE, "failed")

(* publish_message: after Silence without a command the drone is disarmed. *)
Silenced == want' = (want /\ silent <= Silence)

Timer ==
  /\ Silenced
  /\ \/ UpdateOff \/ UpdateStarts \/ UpdatePreLow \/ UpdateRetryLow
     \/ UpdateHigh \/ UpdateArmed \/ UpdateFailed
  /\ due' = FALSE
  /\ LET edge == ~switch /\ switch' IN
       /\ answer' = IF edge THEN "none" ELSE answer
       /\ mode_edge' = IF edge THEN "before" ELSE mode_edge
  /\ UNCHANGED <<silent, mode, mode_age, fcVars, airVars>>

-----------------------------------------------------------------------------
(* The FC and the telemetry link.                                          *)
FcSees ==
  /\ fc_switch' = switch
  /\ \/ ~switch /\ fc' = FALSE /\ UNCHANGED answer
     \/ /\ switch /\ ~fc_switch
        /\ \/ fc' = TRUE /\ answer' = "armed"
           \/ fc' = FALSE /\ answer' = "refused"
     \/ switch /\ fc_switch /\ UNCHANGED <<fc, answer>>

(* A tick passes; a frame that was on the way too long is lost.            *)
SwitchTick ==
  /\ ~due /\ due' = TRUE
  /\ silent' = Capped(silent, Silence + 1)
  /\ since' = Capped(since, ConfirmMax)
  /\ mode_age' = Capped(mode_age, ModeFresh + 1)
  /\ air' = IF air_age < Delay THEN air ELSE "none"
  /\ air_age' = IF air # "none" /\ air_age < Delay THEN air_age + 1 ELSE 0
  /\ FcSees
  /\ UNCHANGED <<want, phase, tries, mode, mode_edge, outVars>>

FcDisarms ==
  /\ fc /\ fc' = FALSE
  /\ UNCHANGED <<cmdVars, attemptVars, modeVars, outVars, due, fc_switch,
                 answer, airVars>>

FrameSent ==
  /\ air = "none"
  /\ air' = (IF fc THEN "armed" ELSE "disarmed") /\ air_age' = 0
  /\ UNCHANGED <<cmdVars, attemptVars, modeVars, outVars, due, fcVars, answer>>

SwitchNext ==
  \/ \E b \in BOOLEAN : Hear(b)
  \/ Timer \/ SwitchTick
  \/ FrameArrives \/ FrameSent \/ FcDisarms

SwitchSpec == SwitchInit /\ [][SwitchNext]_switchVars

(* Time passes, and the radio's timer runs; nothing is promised of the     *)
(* commands, the FC or its frames.                                         *)
SwitchFairness == WF_switchVars(Timer) /\ WF_switchVars(SwitchTick)

-----------------------------------------------------------------------------
(* Every rising edge of the switch is one the FC sees: it has answered it  *)
(* by the next tick, so a refusal never outlives its own attempt.          *)
EdgeIsSeen ==
  phase \in {"high", "armed", "failed", "unconfirmed"} /\ since >= 1 =>
    answer # "none"

(* The switch never falls under an armed FC while arming is wanted,        *)
(* however late or sparse the frames (a retry drops the switch only while  *)
(* the FC is disarmed).                                                    *)
NeverDropsArmed == [][switch /\ ~switch' => ~want' \/ ~fc]_switchVars

(* "armed" is first reported only of an attempt the FC armed on, not on a  *)
(* frame of an earlier one.                                                *)
ArmedIsTrue ==
  [][phase' = "armed" /\ phase # "armed" => answer = "armed"]_switchVars

(* An attempt ends: the fleet manager, which waits on it, gets a verdict,  *)
(* however often the FC refuses and whatever its frames say.               *)
VerdictComes == (state = "pending") ~> (state # "pending")

(* A stream that falls silent for good leaves the switch low and the FC    *)
(* disarmed.                                                               *)
SilenceDisarms == <>[](silent = Silence + 1) => <>[](~switch /\ ~fc)

(* While its frames keep coming, an FC that disarms itself after a         *)
(* confirmed arm is reported failed.                                       *)
FcLossReported ==
  []<>(mode_age = 0) =>
    ((phase = "armed" /\ ~fc) ~> (state = "failed" \/ ~want))

(* Nothing stale keeps a drone armed: neither the last command of a dead   *)
(* stream nor a confirmation the FC has gone back on.                      *)
StaleArmEnds == SilenceDisarms /\ FcLossReported
=============================================================================
