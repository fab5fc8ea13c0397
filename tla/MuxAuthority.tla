---------------------------- MODULE MuxAuthority ----------------------------
(***************************************************************************)
(* What the ELRS mux of a drone promises, whatever its callbacks hear: who *)
(* writes the drone's radio, how that authority may move, and what may     *)
(* reach the radio under each of them.                                     *)
(*                                                                         *)
(*     partner ---TakeOver (our tracker commands thrust)---> ours          *)
(*     partner, ours ---HandBack (once, /partner/release)---> partner      *)
(*     partner ---Cut--> cut        any ---Latch--> latched                *)
(*                                                                         *)
(* latched is final, cut leaves only for latched, and both send nothing    *)
(* but disarmed idle.                                                      *)
(***************************************************************************)

Streams == {"partner", "ours"}
Cmds == {"off", "idle", "fly"}
Authorities == Streams \cup {"latched", "cut"}

(* The disarmed idle command the mux makes up itself.                      *)
Disarm == [by |-> "mux", cmd |-> "off"]

VARIABLES
  auth,     \* the authority over the radio, as /drone_i/mux_state reads
  radio,    \* the last command sent to the radio, and whose it was
  fresh,    \* our tracker commanded thrust within the live timeout
  handed    \* the one hand-back to the partner is used up

authVars == <<auth, radio, fresh, handed>>

AuthInit ==
  /\ auth \in Streams
  /\ radio = Disarm
  /\ fresh = FALSE
  /\ handed = FALSE

(* A stream is passed on only while it has the authority.                  *)
Pass ==
  /\ auth \in Streams
  /\ \E c \in Cmds : radio' = [by |-> auth, cmd |-> c]
  /\ UNCHANGED <<auth, handed>>

(* Nothing is sent: time passes, or a message moves no authority.          *)
Quiet == UNCHANGED <<auth, radio, handed>>

(* Our tracker takes the drone on a thrust command of its own no older     *)
(* than the live timeout, and its command may go out in the same step.     *)
TakeOver ==
  /\ auth = "partner" /\ auth' = "ours"
  /\ fresh'
  /\ \/ radio' = radio
     \/ \E c \in Cmds : radio' = [by |-> "ours", cmd |-> c]
  /\ UNCHANGED handed

(* The partner gets the drone on a command of his, once.                   *)
HandBack ==
  /\ auth \in Streams /\ auth' = "partner"
  /\ ~handed /\ handed'
  /\ \E c \in {"idle", "fly"} : radio' = [by |-> "partner", cmd |-> c]

(* Only a drone the partner flies is cut.                                  *)
Cut ==
  /\ auth = "partner" /\ auth' = "cut"
  /\ radio' = Disarm
  /\ UNCHANGED handed

Latch ==
  /\ auth # "latched" /\ auth' = "latched"
  /\ radio' = Disarm
  /\ UNCHANGED handed

(* A stopped drone stays stopped, whatever its streams send.               *)
Stopped ==
  /\ auth \in {"latched", "cut"} /\ auth' = auth
  /\ radio' = Disarm
  /\ handed => handed'

AuthNext ==
  /\ fresh' \in BOOLEAN
  /\ handed' \in BOOLEAN
  /\ Pass \/ Quiet \/ TakeOver \/ HandBack \/ Cut \/ Latch \/ Stopped

AuthSpec == AuthInit /\ [][AuthNext]_authVars
=============================================================================
