---------------------------- MODULE RotatingSink ----------------------------
(***************************************************************************)
(* rotating_file_sink (abel/log/sinks/rotating_file_sink.h) over           *)
(* file_helper (abel/log/details/file_helper.h).  The sink's mutex is held *)
(* for a whole call of log, so calls do not interleave; the steps of one   *)
(* call are separate because a file operation may fail, and the process    *)
(* may be killed, between any two of them.  File i stands for the name     *)
(* calc_filename(base_filename_, i).  A throw out of log is caught by the  *)
(* logger, which reports it and drops the message.  A message is on disk   *)
(* whole or not at all: one that a failing operation has cut off counts as *)
(* not written, and the piece of it in the file is left out.               *)
(***************************************************************************)
EXTENDS Naturals, SequencesExt

CONSTANTS
  max_files_, max_size_,
  Sizes,       \* the lengths of formatted messages
  Absent,      \* there is no file of this name
  MaxMsgs,     \* bound: calls of log
  MaxFaults,   \* bound: failures of file operations
  MaxCrashes   \* bound: kills of the process

VARIABLES
  file,          \* what is on disk under each name: a sequence of messages
  fd_,           \* whether file_helper::fd_ is open (always file 0)
  buf,           \* written, and still in the buffer of the FILE
  current_size_,
  msg,           \* the message of the call, [id, len]
  i,             \* the loop variable of rotate_
  pc,            \* "down" when the process is not running
  written,       \* history: the messages that fwrite has taken
  dropped,       \* history: those that were in the buffer when fflush or
                 \* fclose failed or the process was killed
  lost,          \* history: the messages whose call threw
  faults, crashes

vars == <<file, fd_, buf, current_size_, msg, i, pc, written, dropped, lost,
          faults, crashes>>

Names == 0..max_files_

Ids(s) == {s[k].id : k \in DOMAIN s}

(* The length of a file that holds s.                                      *)
Size(s) ==
  LET sum[k \in 0..Len(s)] == IF k = 0 THEN 0 ELSE sum[k - 1] + s[k].len
  IN  sum[Len(s)]

Init ==
  /\ file = [n \in Names |-> IF n = 0 THEN <<>> ELSE Absent]
  /\ fd_ = TRUE /\ buf = <<>> /\ current_size_ = 0
  /\ msg = [id |-> 0, len |-> 0] /\ i = 0 /\ pc = "idle"
  /\ written = {} /\ dropped = {} /\ lost = {} /\ faults = 0 /\ crashes = 0

Fault == faults < MaxFaults /\ faults' = faults + 1

(* The call ends with an exception.                                        *)
Throw == pc' = "idle" /\ lost' = lost \cup {msg.id}

(* fflush or fclose: the first k messages in the buffer reach the file.  A *)
(* failure leaves the others nowhere, and nobody looks at the result.      *)
Transfer(k) == file' = [file EXCEPT ![0] = @ \o SubSeq(buf, 1, k)]
Remainder(k) == SubSeq(buf, k + 1, Len(buf))
Empty(k) ==
  /\ Transfer(k) /\ buf' = <<>>
  /\ dropped' = dropped \cup Ids(Remainder(k))
  /\ IF k = Len(buf) THEN UNCHANGED faults ELSE Fault

(* file_helper::close ignores what fclose returns.                         *)
close ==
  /\ fd_' = FALSE
  /\ IF fd_ THEN \E k \in 0..Len(buf) : Empty(k)
            ELSE UNCHANGED <<file, buf, dropped, faults>>

(* Mutant: the size is set before rotate_ is known to have succeeded.      *)
sink_it_ResetsEarly(len) ==
  /\ pc = "idle" /\ msg.id < MaxMsgs
  /\ msg' = [id |-> msg.id + 1, len |-> len]
  /\ IF current_size_ + len > max_size_
     THEN current_size_' = len /\ close /\ pc' = "rotate" /\ i' = max_files_
     ELSE /\ current_size_' = current_size_ + len /\ pc' = "write"
          /\ UNCHANGED <<file, fd_, buf, i, dropped, faults>>
  /\ UNCHANGED <<written, lost, crashes>>

(* sink_it_ up to the test of the size, and the close at the head of       *)
(* rotate_.                                                                *)
sink_it_(len) ==
  /\ pc = "idle" /\ msg.id < MaxMsgs
  /\ msg' = [id |-> msg.id + 1, len |-> len]
  /\ current_size_' = current_size_ + len
  /\ IF current_size_' > max_size_
     THEN close /\ pc' = "rotate" /\ i' = max_files_
     ELSE pc' = "write" /\ UNCHANGED <<file, fd_, buf, i, dropped, faults>>
  /\ UNCHANGED <<written, lost, crashes>>

(* remove returns true when it has removed the target, and that is what    *)
(* rotate_ throws on.  A remove that fails throws by itself.               *)
RemoveTarget ==
  /\ pc = "rotate" /\ i > 0 /\ file[i] # Absent
  /\ \/ file' = [file EXCEPT ![i] = Absent] /\ UNCHANGED faults
     \/ Fault /\ UNCHANGED file
  /\ Throw
  /\ UNCHANGED <<fd_, buf, current_size_, msg, i, written, dropped, crashes>>

(* Mutant: a failed rename is passed over.                                 *)
RenameSource_FailureIgnored ==
  /\ pc = "rotate" /\ i > 0 /\ file[i] = Absent
  /\ \/ /\ file' = [file EXCEPT ![i] = file[i - 1], ![i - 1] = Absent]
        /\ UNCHANGED faults
     \/ file[i - 1] # Absent /\ Fault /\ UNCHANGED file
  /\ i' = i - 1
  /\ UNCHANGED <<fd_, buf, current_size_, msg, pc, written, dropped, lost, crashes>>

(* One turn of the loop whose target does not exist.  A failed rename is   *)
(* tried again after a remove of the target, which finds nothing; only a   *)
(* second failure throws, and the two count as one here.                   *)
RenameSource ==
  /\ pc = "rotate" /\ i > 0 /\ file[i] = Absent
  /\ \/ /\ file' = [file EXCEPT ![i] = file[i - 1], ![i - 1] = Absent]
        /\ i' = i - 1
        /\ UNCHANGED <<pc, lost, faults>>
     \/ file[i - 1] # Absent /\ Fault /\ Throw /\ UNCHANGED <<file, i>>
  /\ UNCHANGED <<fd_, buf, current_size_, msg, written, dropped, crashes>>

(* file_helper::reopen(true), whose open may fail five times, and the      *)
(* assignment to current_size_ after rotate_.                              *)
Reopen ==
  /\ pc = "rotate" /\ i = 0
  /\ \/ /\ file' = [file EXCEPT ![0] = <<>>]
        /\ fd_' = TRUE /\ current_size_' = msg.len /\ pc' = "write"
        /\ UNCHANGED <<lost, faults>>
     \/ Fault /\ Throw /\ UNCHANGED <<file, fd_, current_size_>>
  /\ UNCHANGED <<buf, msg, i, written, dropped, crashes>>

(* file_helper::write.  With a closed file it would pass a null FILE to    *)
(* fwrite; WriteFindsOpenFile says it never does.                          *)
Write ==
  /\ pc = "write" /\ fd_
  /\ \/ /\ buf' = Append(buf, msg) /\ written' = written \cup {msg.id}
        /\ pc' = "idle" /\ UNCHANGED <<lost, faults>>
     \/ Fault /\ Throw /\ UNCHANGED <<buf, written>>
  /\ UNCHANGED <<file, fd_, current_size_, msg, i, dropped, crashes>>

(* flush_, or the library's own decision to empty the buffer.  A part of   *)
(* the buffer may reach the file and the remainder stay in the buffer: the *)
(* library writes whole blocks, and some keep what a failed fflush did not *)
(* write where others drop it.  file_helper::flush ignores the result.     *)
flush_ ==
  /\ pc # "down" /\ fd_ /\ buf # <<>>
  /\ \/ \E k \in 0..Len(buf) : Empty(k)
     \/ /\ \E k \in 1..Len(buf) - 1 : Transfer(k) /\ buf' = Remainder(k)
        /\ UNCHANGED <<dropped, faults>>
  /\ UNCHANGED <<fd_, current_size_, msg, i, pc, written, lost, crashes>>

(* The process is killed.  Messages in the buffer never reached the disk.  *)
Crash ==
  /\ pc # "down" /\ crashes < MaxCrashes
  /\ crashes' = crashes + 1 /\ pc' = "down"
  /\ fd_' = FALSE /\ buf' = <<>>
  /\ dropped' = dropped \cup Ids(buf)
  /\ UNCHANGED <<file, current_size_, msg, i, written, lost, faults>>

(* The constructor in the next process: open to append, and the size of    *)
(* what is there.                                                          *)
Construct ==
  /\ pc = "down"
  /\ file' = [file EXCEPT ![0] = IF @ = Absent THEN <<>> ELSE @]
  /\ fd_' = TRUE /\ current_size_' = Size(file'[0]) /\ pc' = "idle"
  /\ UNCHANGED <<buf, msg, i, written, dropped, lost, faults, crashes>>

Done == pc = "idle" /\ msg.id = MaxMsgs /\ UNCHANGED vars

Next ==
  \/ \E len \in Sizes : sink_it_(len)
  \/ RemoveTarget \/ RenameSource \/ Reopen \/ Write \/ flush_
  \/ Crash \/ Construct \/ Done

Spec == Init /\ [][Next]_vars

-----------------------------------------------------------------------------
(* A rotation that fails leaves the file closed (rotating_file_sink.h:82), *)
(* and still no later call reaches fwrite with a null FILE: current_size_  *)
(* stays above the limit until a rotation has reopened the file.           *)
WriteFindsOpenFile == pc = "write" => fd_

(* All that is kept, from the oldest file to the buffer.                   *)
Retained ==
  LET OnDisk(n) == IF file[n] = Absent THEN <<>> ELSE file[n]
  IN  FlattenSeq([k \in 1..max_files_ + 1 |-> OnDisk(max_files_ + 1 - k)]) \o buf

(* What is kept is an end of what was written, in order and without a gap: *)
(* rotate_ only ever discards the oldest messages, whatever fails and      *)
(* wherever the process is killed.  The one exemption is dropped: what     *)
(* fflush or fclose could not write goes in silence, as file_helper does   *)
(* not look at their results (file_helper.h:94-103), and a kill takes the  *)
(* buffer; younger messages may be kept all the same.                      *)
RetainedIsSuffix ==
  LET survivors == written \ dropped IN
  /\ \A a, b \in DOMAIN Retained : a < b => Retained[a].id < Retained[b].id
  /\ Ids(Retained) \subseteq survivors
  /\ \A m \in survivors : (\E k \in Ids(Retained) : k < m) => m \in Ids(Retained)

(* The comment on rotate_ says what becomes of the last file,              *)
(* "log.3.txt -> delete": as long as no file operation fails, no message   *)
(* is dropped.                                                             *)
RotationDropsNothing == faults = 0 /\ crashes = 0 => lost = {}
=============================================================================
