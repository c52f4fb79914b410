----------------------------- MODULE DailySink ------------------------------
(***************************************************************************)
(* daily_file_sink (abel/log/sinks/daily_file_sink.h).  A message carries  *)
(* the time at which it was made (log_msg's constructor) and reaches the   *)
(* sink later: it waits for the sink's mutex, or in the queue of an        *)
(* asynchronous logger.  Time is counted in ticks, Day of them to a day,   *)
(* without changes of the time zone; a file is named by its day.           *)
(***************************************************************************)
EXTENDS Naturals, FiniteSets

CONSTANTS
  Day,        \* ticks in a day
  Rotations,  \* possible rotation times, as ticks of a day
  MaxTime,    \* bound: when the clock stops
  MaxMsgs,    \* bound: messages
  MaxFaults   \* bound: failures of fopen

VARIABLES
  now,
  rotation_hm,   \* rotation_h_ and rotation_m_ as a tick of the day
  truncate_,
  rotation_tp_,
  fd_,           \* the file that is open: <<day>>, or << >> when none is
  pending,       \* messages made and not yet in the sink: sets of [id, time]
  msg,           \* the message sink_it_ has, <<>> when none
  pc,
  file,          \* the messages in the file of each day
  made,          \* number of messages made
  late,          \* history: a rotation time or midnight passed between the
                 \* making of a message, or of the sink, and the end of its call
  faults

vars == <<now, rotation_hm, truncate_, rotation_tp_, fd_, pending, msg, pc, file, made,
          late, faults>>

DayOf(t) == t \div Day
Days == 0..DayOf(MaxTime)

(* Mutant: a rotation time that is just now is taken for the next one.     *)
next_rotation_tp_StaysToday(t) ==
  LET rotation_time == DayOf(t) * Day + rotation_hm
  IN  IF rotation_time >= t THEN rotation_time ELSE rotation_time + Day

(* next_rotation_tp_, for the clock's value t.                             *)
next_rotation_tp_(t) ==
  LET rotation_time == DayOf(t) * Day + rotation_hm
  IN  IF rotation_time > t THEN rotation_time ELSE rotation_time + Day

(* The constructor has opened the file of its day, and not read the clock  *)
(* again for rotation_tp_.  A run starts at any tick of the first day.     *)
Init ==
  /\ now \in 0..Day - 1
  /\ rotation_hm \in Rotations /\ truncate_ \in BOOLEAN
  /\ rotation_tp_ = 0 /\ fd_ = <<0>> /\ pc = "set_tp"
  /\ pending = {} /\ msg = <<>> /\ made = 0
  /\ file = [d \in Days |-> {}] /\ late = FALSE /\ faults = 0

(* A rotation time, or midnight, which changes the name of the file.       *)
AtRotation(t) == t % Day \in {0, rotation_hm}

Tick ==
  /\ now < MaxTime
  /\ now' = now + 1
  /\ late' = (late \/ (AtRotation(now') /\ (pending # {} \/ pc # "idle")))
  /\ UNCHANGED <<rotation_hm, truncate_, rotation_tp_, fd_, pending, msg, pc, file, made, faults>>

(* logger::log makes the message.                                          *)
MakeMsg ==
  /\ made < MaxMsgs
  /\ made' = made + 1
  /\ pending' = pending \cup {[id |-> made', time |-> now]}
  /\ UNCHANGED <<now, rotation_hm, truncate_, rotation_tp_, fd_, msg, pc, file, late, faults>>

(* base_sink::log has the mutex; sink_it_ compares the message's time.     *)
sink_it_(m) ==
  /\ pc = "idle" /\ m \in pending
  /\ pending' = pending \ {m} /\ msg' = m
  /\ pc' = IF m.time >= rotation_tp_ THEN "open" ELSE "write"
  /\ UNCHANGED <<now, rotation_hm, truncate_, rotation_tp_, fd_, file, made, late, faults>>

(* file_helper::open closes the old file, then opens the one of the        *)
(* message's day; when it fails the call throws and the message is lost.   *)
Open ==
  /\ pc = "open"
  /\ LET d == DayOf(msg.time)
     IN  \/ /\ fd_' = <<d>> /\ pc' = "set_tp"
            /\ file' = IF truncate_ THEN [file EXCEPT ![d] = {}] ELSE file
            /\ UNCHANGED <<msg, faults>>
         \/ /\ faults < MaxFaults /\ faults' = faults + 1
            /\ fd_' = <<>> /\ pc' = "idle" /\ msg' = <<>>
            /\ UNCHANGED file
  /\ UNCHANGED <<now, rotation_hm, truncate_, rotation_tp_, pending, made, late>>

(* next_rotation_tp_ reads the clock, not the message's time.              *)
SetRotation ==
  /\ pc = "set_tp"
  /\ rotation_tp_' = next_rotation_tp_(now)
  /\ pc' = IF msg = <<>> THEN "idle" ELSE "write"
  /\ UNCHANGED <<now, rotation_hm, truncate_, fd_, pending, msg, file, made, late, faults>>

(* file_helper::write; with no open file fwrite has a null FILE, and what  *)
(* happens is undefined: the run ends.                                     *)
Write ==
  /\ pc = "write"
  /\ IF fd_ = <<>>
     THEN pc' = "undefined" /\ UNCHANGED <<msg, file>>
     ELSE pc' = "idle" /\ msg' = <<>> /\ file' = [file EXCEPT ![fd_[1]] = @ \cup {msg}]
  /\ UNCHANGED <<now, rotation_hm, truncate_, rotation_tp_, fd_, pending, made, late, faults>>

Done ==
  /\ \/ pc = "undefined"
     \/ now = MaxTime /\ made = MaxMsgs /\ pending = {} /\ pc = "idle"
  /\ UNCHANGED vars

Next ==
  \/ Tick \/ MakeMsg \/ Open \/ SetRotation \/ Write \/ Done
  \/ \E m \in pending : sink_it_(m)

Spec == Init /\ [][Next]_vars

-----------------------------------------------------------------------------
(* The rotation times passed by t: messages of one period belong together. *)
Period(t) == (t + Day - rotation_hm) \div Day

(* daily_file_sink puts the messages of one period between rotations into  *)
(* one file, named by the day on which the period began or by the day of   *)
(* the message, however many rotations were missed because nothing was     *)
(* logged and whichever opens fail, unless some call straddled a rotation  *)
(* time or midnight.  After a failure the file is closed and rotation_tp_  *)
(* is where it was: only a message made before that rotation time can      *)
(* reach fwrite with a null FILE, never one of those that come after the   *)
(* failure (daily_file_sink.h:65-75).                                      *)
OnePeriodOneFile ==
  ~late =>
    /\ pc \in {"write", "undefined"} => fd_ # <<>>
    /\ \A d \in Days : \A m \in file[d] :
         /\ d * Day <= m.time /\ m.time < (d + 1) * Day + rotation_hm
         /\ \A e \in Days : \A n \in file[e] : Period(m.time) = Period(n.time) => d = e
=============================================================================
