------------------------------ MODULE Sensors ------------------------------
(***************************************************************************)
(* SimpleSensor and SimpleSensor2 (vp/sensor.h, vp/sensor2.h): a thread    *)
(* fills a data frame every scaler milliseconds and raises an interrupt;   *)
(* software reads the frame and writes scaler and filter at any moment,    *)
(* also in the very instant in which the thread is about to run.           *)
(***************************************************************************)
EXTENDS Integers

CONSTANTS MaxScaler,    \* 100 in the code
          FirstScaler,  \* 25 in the code
          NoSample      \* the frame before it is first filled

ASSUME SensorAssumption == MaxScaler \in Nat /\ FirstScaler \in 1 .. MaxScaler

VARIABLES sensor,          \* 1 or 2, the class explored
          scaler, filterReg,  \* the registers
          due,             \* ms until run_event, 0 when it is not notified
          runnable,        \* run_event has occurred, the thread has not run
          frame,           \* what the data frame was filled with
          age,             \* ms since the last frame or write of scaler
          rushed           \* scaler was written between event and thread

sensorVars == <<sensor, scaler, filterReg, due, runnable, frame, age, rushed>>

SensorInit ==
  /\ sensor \in {1, 2}
  /\ scaler = FirstScaler /\ filterReg = 0
  /\ due = FirstScaler /\ runnable = FALSE
  /\ frame = NoSample
  /\ age = 0 /\ rushed = FALSE

\* A millisecond passes; all that is due in this instant comes first.
Millisecond ==
  /\ ~runnable
  /\ due' = due - 1
  /\ runnable' = (due = 1)
  /\ age' = age + 1
  /\ rushed' = FALSE
  /\ UNCHANGED <<sensor, scaler, filterReg, frame>>

\* Mutant of Renotify: the notification under way is not cancelled, and
\* notify keeps the earlier of the two.
RenotifyKeeps(v) == IF due > 0 /\ due < v THEN due ELSE v

\* cancel, then notify.
Renotify(v) == v

\* SCALER_REG_ADDR: a value out of range is ignored.
WriteScaler(v) ==
  /\ IF v \in 1 .. MaxScaler
     THEN /\ scaler' = v
          /\ due' = Renotify(v)
          /\ age' = 0
          /\ rushed' = runnable
     ELSE UNCHANGED <<scaler, due, age, rushed>>
  /\ UNCHANGED <<sensor, filterReg, runnable, frame>>

WriteFilter(v) ==
  /\ filterReg' = v
  /\ UNCHANGED <<sensor, scaler, due, runnable, frame, age, rushed>>

\* The characters drawn: the two classes differ in their fallback.
Sample ==
  CASE filterReg = 1 -> "digits"
    [] filterReg = 2 -> "letters"
    [] OTHER -> IF sensor = 1 THEN "printable" ELSE "any"

\* run: a notification that is still under way when notify is called again
\* stands if it is the earlier one.  The interrupt goes out with the frame, and
\* age counts from both.
Generate ==
  /\ runnable
  /\ runnable' = FALSE
  /\ frame' = Sample
  /\ due' = IF due > 0 /\ due < scaler THEN due ELSE scaler
  /\ age' = 0 /\ rushed' = FALSE
  /\ UNCHANGED <<sensor, scaler, filterReg>>

SensorNext ==
  \/ Millisecond \/ Generate
  \/ \E v \in 0 .. MaxScaler + 1 : WriteScaler(v)
  \/ \E v \in 0 .. 3 : WriteFilter(v)

SensorSpec == SensorInit /\ [][SensorNext]_sensorVars

-----------------------------------------------------------------------------
(* Properties                                                              *)

\* Frames are punctual: one comes exactly scaler ms after the frame before it
\* or after the last change of scaler, never earlier because of a forgotten
\* notification and never later because of two (sensor.h:81-97).
SensorPunctual ==
  /\ age + due = scaler \/ runnable
  /\ runnable /\ ~rushed => age = scaler
=============================================================================
