--------------------------- MODULE AsyncLogProof ---------------------------
(***************************************************************************)
(* Asynchronous logging, for any loggers, workers, programs of calls and   *)
(* queue size: nobody uses the pool after its destruction, the circular    *)
(* queue implements LogQueue, no message is lost in silence, the           *)
(* destructor drains the queue, and one worker keeps the order.            *)
(***************************************************************************)
EXTENDS AsyncLog, FiniteSetTheorems, TLAPS

Messages == LogMessages \cup {Terminate}

PosterLabels == {"idle", "post", "blocked", "notify", "release", "join", "done"}
WorkerLabels == {"look", "waiting", "notify", "process", "exited"}

Typed ==
  /\ policy \in [Producers -> {"block", "overrun_oldest"}]
  /\ workers \in Crews
  /\ pc \in [Posters \cup workers -> PosterLabels \cup WorkerLabels]
  /\ \A t \in Posters : pc[t] \in PosterLabels
  /\ \A w \in workers : pc[w] \in WorkerLabels
  /\ item \in [Posters \cup workers -> Messages \cup {None}]
  /\ call \in [Producers -> Nat]
  /\ holders \subseteq Posters
  /\ pool \in {"alive", "dying", "gone"}
  /\ left \in Nat

(* A logger holds the pool for the whole of a call, the owner until it has *)
(* shut down; whoever lets go last destroys it, alone.                     *)
Alive ==
  /\ holders # {}
  /\ \A p \in Producers : IF p \in holders THEN pc[p] \in {"post", "blocked", "notify", "release"}
                                           ELSE pc[p] = "idle"
  /\ pc[Owner] = IF Owner \in holders THEN "idle" ELSE "done"

Dying ==
  /\ holders = {} /\ pc[Owner] # "idle"
  /\ \E d \in Posters :
       /\ pc[d] \in {"post", "blocked", "notify", "join"} /\ (pc[d] = "join" <=> left = 0)
       /\ \A t \in Posters \ {d} : pc[t] \in {"idle", "done"}

Gone ==
  /\ holders = {} /\ pc[Owner] # "idle"
  /\ \A t \in Posters : pc[t] \in {"idle", "done"}
  /\ \A w \in workers : pc[w] = "exited"

Lifetime ==
  /\ pool = "alive" => Alive
  /\ pool = "dying" => Dying
  /\ pool = "gone"  => Gone

(* What a worker has in hand and what a poster is about to post.           *)
Items ==
  /\ \A w \in workers : item[w] = None <=> pc[w] \notin {"notify", "process"}
  /\ \A t \in Posters : pc[t] \in {"post", "blocked"} =>
       IF holders = {} THEN item[t] = Terminate
       ELSE t \in Producers /\ item[t] = <<t, call[t] + 1>> /\ item[t] \in LogMessages

(* The slots from head to tail hold messages.                              *)
At(i) == buf[(head + i - 1) % Slots]
Queue ==
  /\ head \in 0 .. MaxItems /\ tail \in 0 .. MaxItems
  /\ buf \in [0 .. MaxItems -> Messages \cup {None}]
  /\ \A i \in 1 .. Size : At(i) \in Messages

(* The state the rest is about.                                            *)
Sound == Typed /\ Lifetime /\ Items /\ Queue

(* The calls of p whose message has been posted or refused: the call in    *)
(* progress counts once its message is in the queue.                       *)
Sent(p) == IF p \in holders /\ pc[p] \in {"notify", "release"} THEN call[p] + 1 ELSE call[p]

InQueue(m) == \E i \in 1 .. Size : At(i) = m
InHand(m)  == \E w \in workers : item[w] = m
Given(m)   == \E i \in 1 .. Len(out) : out[i] = m

(* A message that was sent is in one place, unless it was refused.         *)
Placed(m) ==
  /\ InQueue(m) \/ InHand(m) \/ Given(m) \/ m \in dropped => m[2] <= Sent(m[1])
  /\ m[2] <= Sent(m[1]) =>
       m \in refused \/ InQueue(m) \/ InHand(m) \/ Given(m) \/ m \in dropped
  /\ Given(m) => ~InQueue(m) /\ ~InHand(m) /\ m \notin dropped
  /\ m \in dropped => ~InQueue(m) /\ ~InHand(m)
  /\ InHand(m) => ~InQueue(m)
  /\ \A v, w \in workers : item[v] = m /\ item[w] = m => v = w

Accounting ==
  /\ out \in Seq(LogMessages) /\ dropped \subseteq LogMessages
  /\ \A p \in Producers : Sent(p) <= Len(Program[p])
  /\ pool = "alive" => ~InQueue(Terminate) /\ ~InHand(Terminate)
  /\ dropped # {} => \E p \in Producers : policy[p] = "overrun_oldest"
  /\ \A m \in LogMessages : Placed(m)
  /\ \A i, j \in 1 .. Len(out) : out[i] = out[j] => i = j

(* A logger's messages are in the queue in the order it logged them, and   *)
(* with one worker that holds of all of them.                              *)
Before(m, n) == (m[1] = n[1] /\ m # Terminate) => m[2] < n[2]
Ordered ==
  /\ \A i, j \in 1 .. Size : i < j => Before(At(i), At(j))
  /\ Cardinality(workers) = 1 =>
       /\ \A i \in 1 .. Len(out), j \in 1 .. Len(out) : i < j => Before(out[i], out[j])
       /\ \A i \in 1 .. Len(out), j \in 1 .. Size : Before(out[i], At(j))
       /\ \A w \in workers : item[w] # None =>
            /\ \A i \in 1 .. Len(out) : Before(out[i], item[w])
            /\ \A j \in 1 .. Size : Before(item[w], At(j))

(* The destructor posts one termination message per worker.  Those not     *)
(* taken yet are the newest in the queue, and once one has been taken      *)
(* nothing else is left in it.                                             *)
Taken  == {w \in workers : pc[w] = "exited" \/ item[w] = Terminate}
ToPost == IF \E t \in Posters : pc[t] = "notify" THEN left - 1 ELSE left
Rest   == Cardinality(workers) - ToPost - Cardinality(Taken)
Draining ==
  /\ pool = "alive" => Taken = {} /\ left = 0
  /\ pool = "dying" =>
       /\ Rest \in 0 .. Size
       /\ \A i \in 1 .. Size : (At(i) = Terminate) <=> (i > Size - Rest)
       /\ Taken # {} => Rest = Size
  /\ pool = "gone" => Size = 0

IInv == Sound /\ Accounting /\ Ordered /\ Draining

-----------------------------------------------------------------------------
(* The queue's arithmetic: an index that has left the vector comes back at *)
(* its start.                                                              *)
LEMMA SlotsIs == MaxItems \in Nat \ {0} /\ Slots = MaxItems + 1
BY AsyncLogAssumption DEF Slots

(* An index past the end of v_ comes back at its start.                    *)
LEMMA Wrap == \A x \in 0 .. (2 * MaxItems + 1) :
                x % Slots = IF x <= MaxItems THEN x ELSE x - Slots
BY AsyncLogAssumption DEF Slots

(* What circular_q computes: the slot after the tail, and the distance     *)
(* from head to tail.                                                      *)
LEMMA Indices ==
  ASSUME NEW h \in 0 .. MaxItems, NEW t \in 0 .. MaxItems
  PROVE  /\ (t + 1) % Slots = IF t < MaxItems THEN t + 1 ELSE 0
         /\ (t + Slots - h) % Slots = IF h <= t THEN t - h ELSE t + Slots - h
         /\ \A i \in 1 .. Slots : (h + i - 1) % Slots
              = IF h + i - 1 <= MaxItems THEN h + i - 1 ELSE h + i - 1 - Slots
<1> USE SlotsIs
<1>1. (t + 1) % Slots = IF t < MaxItems THEN t + 1 ELSE 0
  <2>1. PICK x \in 0 .. (2 * MaxItems + 1) : x = t + 1 OBVIOUS
  <2>2. x % Slots = IF x <= MaxItems THEN x ELSE x - Slots BY Wrap
  <2> QED BY <2>1, <2>2
<1>2. (t + Slots - h) % Slots = IF h <= t THEN t - h ELSE t + Slots - h
  <2>1. PICK x \in 0 .. (2 * MaxItems + 1) : x = t + Slots - h OBVIOUS
  <2>2. x % Slots = IF x <= MaxItems THEN x ELSE x - Slots BY Wrap
  <2> QED BY <2>1, <2>2
<1>3. ASSUME NEW i \in 1 .. Slots
      PROVE  (h + i - 1) % Slots
               = IF h + i - 1 <= MaxItems THEN h + i - 1 ELSE h + i - 1 - Slots
  <2>1. PICK x \in 0 .. (2 * MaxItems + 1) : x = h + i - 1 OBVIOUS
  <2>2. x % Slots = IF x <= MaxItems THEN x ELSE x - Slots BY Wrap
  <2> QED BY <2>1, <2>2
<1> QED BY <1>1, <1>2, <1>3

(* The number of messages tells whether the queue is empty or full.        *)
LEMMA SizeSays ==
  ASSUME Queue
  PROVE  Size \in 0 .. MaxItems /\ (empty <=> Size = 0) /\ (full <=> Size = MaxItems)
<1> USE SlotsIs
<1>1. head \in 0 .. MaxItems /\ tail \in 0 .. MaxItems BY DEF Queue
<1>2. Size = IF head <= tail THEN tail - head ELSE tail + Slots - head
      BY <1>1, Indices DEF Size
<1>3. (tail + 1) % Slots = IF tail < MaxItems THEN tail + 1 ELSE 0 BY <1>1, Indices
<1> QED BY <1>1, <1>2, <1>3 DEF empty, full

(* The slot behind the newest message is the tail, and no message is in it.*)
LEMMA TailIsFree ==
  ASSUME Queue
  PROVE  /\ (head + (Size + 1) - 1) % Slots = tail
         /\ \A i \in 1 .. Size : (head + i - 1) % Slots \in 0 .. MaxItems \ {tail}
<1> USE SlotsIs
<1>1. head \in 0 .. MaxItems /\ tail \in 0 .. MaxItems BY DEF Queue
<1>2. Size = IF head <= tail THEN tail - head ELSE tail + Slots - head
      BY <1>1, Indices DEF Size
<1>3. \A i \in 1 .. Slots : (head + i - 1) % Slots
        = IF head + i - 1 <= MaxItems THEN head + i - 1 ELSE head + i - 1 - Slots
      BY <1>1, Indices
<1>4. (head + (Size + 1) - 1) % Slots = tail
  <2>1. Size + 1 \in 1 .. Slots BY SizeSays
  <2>2. (head + (Size + 1) - 1) % Slots
          = IF head + (Size + 1) - 1 <= MaxItems THEN head + (Size + 1) - 1
            ELSE head + (Size + 1) - 1 - Slots
        BY <1>3, <2>1
  <2> QED BY <1>1, <1>2, <2>2
<1>5. \A i \in 1 .. Size : (head + i - 1) % Slots \in 0 .. MaxItems \ {tail}
      BY <1>1, <1>2, <1>3
<1> QED BY <1>4, <1>5

(* push_back in a queue with room appends; indices stay inside the vector. *)
LEMMA PushRoom ==
  ASSUME Queue, NEW m \in Messages, ~full, push_back(m)
  PROVE  /\ Queue' /\ Size' = Size + 1 /\ dropped' = dropped
         /\ \A i \in 1 .. Size + 1 : At(i)' = IF i = Size + 1 THEN m ELSE At(i)
<1> USE SlotsIs
<1>1. head \in 0 .. MaxItems /\ tail \in 0 .. MaxItems BY DEF Queue
<1>2. tail' = IF tail < MaxItems THEN tail + 1 ELSE 0 BY <1>1, Indices DEF push_back
<1>3. tail' # head /\ head' = head /\ dropped' = dropped BY DEF full, push_back
<1>4. tail' \in 0 .. MaxItems BY <1>1, <1>2
<1>5. Size' = Size + 1
  <2>1. Size = IF head <= tail THEN tail - head ELSE tail + Slots - head
        BY <1>1, Indices DEF Size
  <2>2. Size' = IF head <= tail' THEN tail' - head ELSE tail' + Slots - head
        BY <1>1, <1>3, <1>4, Indices DEF Size
  <2> QED BY <1>1, <1>2, <1>3, <2>1, <2>2
<1>6. buf'[tail] = m /\ \A k \in 0 .. MaxItems \ {tail} : buf'[k] = buf[k]
      BY <1>1 DEF push_back, Queue
<1>7. buf'[(head + (Size + 1) - 1) % Slots] = m BY <1>6, TailIsFree
<1>8. \A i \in 1 .. Size : At(i)' = At(i) BY <1>3, <1>6, TailIsFree DEF At
<1>9. ASSUME NEW i \in 1 .. Size + 1 PROVE At(i)' = IF i = Size + 1 THEN m ELSE At(i)
  <2>1. CASE i = Size + 1 BY <1>3, <1>7, <2>1 DEF At
  <2>2. CASE i # Size + 1 BY <1>8, <2>2, SizeSays
  <2> QED BY <2>1, <2>2
<1>10. ASSUME NEW i \in 1 .. Size' PROVE At(i)' \in Messages
  <2>1. i \in 1 .. Size + 1 BY <1>5
  <2>2. i = Size + 1 \/ i \in 1 .. Size BY <2>1, SizeSays
  <2> QED BY <1>9, <2>1, <2>2 DEF Queue
<1>11. Queue' BY <1>1, <1>3, <1>4, <1>10 DEF Queue, push_back
<1> QED BY <1>3, <1>5, <1>9, <1>11

(* When the head moves on, the slots are counted from the next one.        *)
LEMMA Shift ==
  ASSUME NEW h \in 0 .. MaxItems, NEW g, g = (h + 1) % Slots, NEW i \in 1 .. MaxItems
  PROVE  g \in 0 .. MaxItems /\ (g + i - 1) % Slots = (h + (i + 1) - 1) % Slots
<1> USE SlotsIs
<1>1. g = IF h < MaxItems THEN h + 1 ELSE 0 BY Indices
<1>2. g \in 0 .. MaxItems BY <1>1
<1>3. (g + i - 1) % Slots
        = IF g + i - 1 <= MaxItems THEN g + i - 1 ELSE g + i - 1 - Slots
  <2>1. i \in 1 .. Slots OBVIOUS
  <2>2. \A k \in 1 .. Slots : (g + k - 1) % Slots
          = IF g + k - 1 <= MaxItems THEN g + k - 1 ELSE g + k - 1 - Slots
        BY <1>2, Indices
  <2> QED BY <2>1, <2>2
<1>4. i + 1 \in 1 .. Slots OBVIOUS
<1>5. (h + (i + 1) - 1) % Slots
        = IF h + (i + 1) - 1 <= MaxItems THEN h + (i + 1) - 1 ELSE h + (i + 1) - 1 - Slots
      BY <1>4, Indices
<1> QED BY <1>1, <1>2, <1>3, <1>5

(* push_back in a full queue gives up the oldest message.                  *)
LEMMA PushFull ==
  ASSUME Queue, NEW m \in Messages, full, push_back(m)
  PROVE  /\ Queue' /\ Size' = Size /\ dropped' = dropped \cup {At(1)}
         /\ \A i \in 1 .. Size : At(i)' = IF i = Size THEN m ELSE At(i + 1)
<1> USE SlotsIs
<1>1. head \in 0 .. MaxItems /\ tail \in 0 .. MaxItems BY DEF Queue
<1>2. /\ tail' = head /\ head' = (head + 1) % Slots /\ dropped' = dropped \cup {buf[head]}
      /\ tail' = (tail + 1) % Slots
      BY DEF full, push_back
<1>3. head' \in 0 .. MaxItems /\ tail' \in 0 .. MaxItems BY <1>1, <1>2, Shift
<1>4. buf[head] = At(1)
  <2>1. (head + 1 - 1) % Slots = head BY <1>1, Indices
  <2> QED BY <2>1 DEF At
<1>5. Size = MaxItems BY SizeSays
<1>6. Size' = MaxItems
  <2>1. head' = IF head < MaxItems THEN head + 1 ELSE 0 BY <1>1, <1>2, Indices
  <2>2. Size' = IF head' <= tail' THEN tail' - head' ELSE tail' + Slots - head'
        BY <1>3, Indices DEF Size
  <2>3. tail' = head BY <1>2
  <2> QED BY <1>1, <2>1, <2>2, <2>3
<1>7. buf'[tail] = m /\ \A k \in 0 .. MaxItems \ {tail} : buf'[k] = buf[k]
      BY <1>1 DEF push_back, Queue
<1>8. ASSUME NEW i \in 1 .. Size PROVE At(i)' = IF i = Size THEN m ELSE At(i + 1)
  <2>1. (head' + i - 1) % Slots = (head + (i + 1) - 1) % Slots
        BY <1>1, <1>2, <1>5, Shift
  <2>2. CASE i = Size
    <3>1. (head' + i - 1) % Slots = tail BY <2>1, <2>2, TailIsFree
    <3> QED BY <1>7, <2>2, <3>1 DEF At
  <2>3. CASE i # Size
    <3>1. i + 1 \in 1 .. Size BY <1>5, <2>3
    <3>2. (head + (i + 1) - 1) % Slots \in 0 .. MaxItems \ {tail} BY <3>1, TailIsFree
    <3> QED BY <1>7, <2>1, <2>3, <3>2 DEF At
  <2> QED BY <2>2, <2>3
<1>9. ASSUME NEW i \in 1 .. Size' PROVE At(i)' \in Messages
  <2>1. i \in 1 .. Size /\ (i # Size => i + 1 \in 1 .. Size) BY <1>5, <1>6
  <2> QED BY <1>8, <2>1 DEF Queue
<1>10. Queue' BY <1>1, <1>3, <1>9 DEF Queue, push_back
<1> QED BY <1>2, <1>4, <1>5, <1>6, <1>8, <1>10

(* pop_front takes the oldest message.                                     *)
LEMMA PopFront ==
  ASSUME Queue, NEW w, ~empty, pop_front(w)
  PROVE  /\ Queue' /\ Size' = Size - 1 /\ Size > 0 /\ dropped' = dropped
         /\ item' = [item EXCEPT ![w] = At(1)] /\ At(1) \in Messages
         /\ \A i \in 1 .. Size - 1 : At(i)' = At(i + 1)
<1> USE SlotsIs
<1>1. head \in 0 .. MaxItems /\ tail \in 0 .. MaxItems BY DEF Queue
<1>2. /\ tail' = tail /\ head' = (head + 1) % Slots /\ dropped' = dropped
      /\ item' = [item EXCEPT ![w] = buf[head]] /\ buf' = [buf EXCEPT ![head] = None]
      BY DEF pop_front
<1>3. head' \in 0 .. MaxItems BY <1>1, <1>2, Shift
<1>4. buf[head] = At(1)
  <2>1. (head + 1 - 1) % Slots = head BY <1>1, Indices
  <2> QED BY <2>1 DEF At
<1>5. Size \in 1 .. MaxItems BY SizeSays
<1>6. Size' = Size - 1
  <2>1. head' = IF head < MaxItems THEN head + 1 ELSE 0 BY <1>1, <1>2, Indices
  <2>2. Size' = IF head' <= tail THEN tail - head' ELSE tail + Slots - head'
        BY <1>1, <1>2, <1>3, Indices DEF Size
  <2>3. Size = IF head <= tail THEN tail - head ELSE tail + Slots - head
        BY <1>1, Indices DEF Size
  <2> QED BY <1>1, <1>5, <2>1, <2>2, <2>3
<1>7. ASSUME NEW i \in 1 .. Size - 1 PROVE At(i)' = At(i + 1)
  <2>1. i \in 1 .. MaxItems /\ i + 1 \in 1 .. Size /\ i + 1 \in 1 .. Slots BY <1>5
  <2>2. (head' + i - 1) % Slots = (head + (i + 1) - 1) % Slots
        BY <1>1, <1>2, <2>1, Shift
  <2>3. (head + (i + 1) - 1) % Slots
          = IF head + (i + 1) - 1 <= MaxItems THEN head + (i + 1) - 1
            ELSE head + (i + 1) - 1 - Slots
        BY <1>1, <2>1, Indices
  <2>4. (head + (i + 1) - 1) % Slots \in 0 .. MaxItems \ {head} BY <1>1, <1>5, <2>3
  <2> QED BY <1>2, <2>2, <2>4 DEF At, Queue
<1>8. ASSUME NEW i \in 1 .. Size' PROVE At(i)' \in Messages
  <2>1. i \in 1 .. Size - 1 /\ i + 1 \in 1 .. Size BY <1>5, <1>6
  <2> QED BY <1>7, <2>1 DEF Queue
<1>9. Queue' BY <1>1, <1>2, <1>3, <1>8 DEF Queue
<1>10. At(1) \in Messages BY <1>5 DEF Queue
<1> QED BY <1>2, <1>4, <1>5, <1>6, <1>7, <1>9, <1>10
-----------------------------------------------------------------------------
(* What a step does to the messages.                                       *)
SameQueue == Size' = Size /\ dropped' = dropped /\ \A i \in 1 .. Size : At(i)' = At(i)
SameHands == \A w \in workers : item'[w] = item[w]
SameSent  == \A p \in Producers : Sent(p)' = Sent(p)

Moves(t, label) == \A u \in Posters \cup workers : pc'[u] = IF u = t THEN label ELSE pc[u]

(* m is the next message of a logger in a call, or a termination message.  *)
Sends(m) ==
  /\ \/ /\ m \in LogMessages /\ pool = "alive" /\ m[2] = Sent(m[1]) + 1
        /\ \A p \in Producers : Sent(p)' = IF p = m[1] THEN Sent(p) + 1 ELSE Sent(p)
     \/ m = Terminate /\ pool = "dying" /\ SameSent
  /\ \E t \in Posters : pc[t] = "post" /\ Moves(t, "notify")
  /\ left' = left

PutStep(m) ==
  /\ Sends(m) /\ Size < MaxItems /\ Size' = Size + 1
  /\ \A i \in 1 .. Size + 1 : At(i)' = IF i = Size + 1 THEN m ELSE At(i)
  /\ SameHands /\ UNCHANGED <<pool, out, dropped, refused>>

OverrunStep(m) ==
  /\ Sends(m) /\ MayOverrun(m) /\ Size = MaxItems /\ Size' = Size
  /\ \A i \in 1 .. Size : At(i)' = IF i = Size THEN m ELSE At(i + 1)
  /\ dropped' = dropped \cup {At(1)}
  /\ SameHands /\ UNCHANGED <<pool, out, refused>>

TakeStep(w) ==
  /\ item[w] = None /\ Size > 0 /\ Size' = Size - 1
  /\ \A i \in 1 .. Size - 1 : At(i)' = At(i + 1)
  /\ \A v \in workers : item'[v] = IF v = w THEN At(1) ELSE item[v]
  /\ Moves(w, "notify") /\ pc[w] = "look"
  /\ SameSent /\ UNCHANGED <<pool, left, out, dropped, refused>>

FinishStep(w) ==
  /\ item[w] # None
  /\ \A v \in workers : item'[v] = IF v = w THEN None ELSE item[v]
  /\ out' = IF item[w] = Terminate THEN out ELSE Append(out, item[w])
  /\ Moves(w, IF item[w] = Terminate THEN "exited" ELSE "look") /\ pc[w] = "process"
  /\ SameQueue /\ SameSent /\ UNCHANGED <<pool, left, refused>>

RefuseStep(p) ==
  /\ <<p, Sent(p) + 1>> \in LogMessages
  /\ refused' = refused \cup {<<p, Sent(p) + 1>>}
  /\ \A q \in Producers : Sent(q)' = IF q = p THEN Sent(q) + 1 ELSE Sent(q)
  /\ SameQueue /\ SameHands /\ UNCHANGED <<pool, left, pc, out>>

(* The pool's life and what is left to post in it.                         *)
Ages ==
  \/ pool = "alive" /\ pool' = "alive" /\ left' = left
  \/ pool = "alive" /\ pool' = "dying" /\ ToPost' = Cardinality(workers)
  \/ pool = "dying" /\ pool' = "dying" /\ ToPost' = ToPost
  \/ /\ pool = "dying" /\ pool' = "gone" /\ ToPost = 0
     /\ \A w \in workers : pc[w] = "exited"
  \/ pool = "gone" /\ pool' = "gone"

QuietStep ==
  /\ SameQueue /\ SameHands /\ SameSent /\ UNCHANGED <<out, refused>>
  /\ \A w \in workers : pc'[w] = "exited" <=> pc[w] = "exited"
  /\ Ages

Effect ==
  /\ UNCHANGED <<policy, workers>>
  /\ \/ \E m \in Messages : PutStep(m) \/ OverrunStep(m)
     \/ \E w \in workers : TakeStep(w) \/ FinishStep(w)
     \/ \E p \in Producers : RefuseStep(p)
     \/ QuietStep

-----------------------------------------------------------------------------
(* The names: a pool has workers, and no thread is a poster and a worker.  *)
LEMMA Names ==
  ASSUME Typed
  PROVE  /\ workers # {} /\ workers \subseteq AllWorkers /\ workers \cap Posters = {}
         /\ Owner \in Posters /\ Producers \subseteq Posters /\ DOMAIN pc = Posters \cup workers
         /\ Posters \ {Owner} = Producers
         /\ IsFiniteSet(workers)
<1>1. workers # {} /\ workers \subseteq AllWorkers BY AsyncLogAssumption DEF Typed
<1>2. IsFiniteSet(workers) BY <1>1, NamesAssumption, FS_Subset
<1> QED BY <1>1, <1>2, NamesAssumption DEF Posters, Typed

(* A log message is its logger and the number of the call.                 *)
LEMMA LogMessage ==
  /\ \A m \in LogMessages : /\ m = <<m[1], m[2]>> /\ m[1] \in Producers
                            /\ m[2] \in 1 .. Len(Program[m[1]]) /\ m[2] \in Nat
                            /\ m # Terminate
  /\ \A p \in Producers : \A n \in 1 .. Len(Program[p]) : <<p, n>> \in LogMessages
  /\ \A p \in Producers : Len(Program[p]) \in Nat
  /\ None \notin Messages
<1>1. \A p \in Producers : Len(Program[p]) \in Nat
      BY AsyncLogAssumption
<1>2. ASSUME NEW m \in LogMessages
      PROVE  /\ m = <<m[1], m[2]>> /\ m[1] \in Producers
             /\ m[2] \in 1 .. Len(Program[m[1]]) /\ m[2] \in Nat
             /\ m # Terminate
  <2>1. PICK p \in Producers : m \in {p} \X (1 .. Len(Program[p])) BY DEF LogMessages
  <2>2. m = <<m[1], m[2]>> /\ m[1] = p /\ m[2] \in 1 .. Len(Program[p]) BY <2>1
  <2> QED BY <1>1, <2>2, NamesAssumption DEF Terminate
<1>3. ASSUME NEW p \in Producers, NEW n \in 1 .. Len(Program[p]) PROVE <<p, n>> \in LogMessages
      BY DEF LogMessages
<1>4. None \notin Messages BY NamesAssumption DEF Messages
<1> QED BY <1>1, <1>2, <1>3, <1>4

(* The pool does not age in a step that leaves its state, the postings it  *)
(* still owes and whoever is about to notify alone.                        *)
LEMMA AgesSame ==
  ASSUME Typed, UNCHANGED <<pool, left>>,
         \A u \in Posters : pc'[u] = "notify" <=> pc[u] = "notify"
  PROVE  Ages
<1>1. ToPost' = ToPost BY DEF ToPost
<1> QED BY <1>1 DEF Ages, Typed

(* A step that leaves the queue's variables alone leaves its contents.     *)
LEMMA QueueUnchanged == UNCHANGED queueVars => SameQueue /\ (Queue => Queue')
<1>1. SUFFICES ASSUME UNCHANGED queueVars PROVE SameQueue /\ (Queue => Queue') OBVIOUS
<1>2. UNCHANGED <<buf, head, tail, dropped>> BY <1>1 DEF queueVars
<1>3. Size' = Size BY <1>2 DEF Size
<1>4. \A i : At(i)' = At(i) BY <1>2 DEF At
<1>5. Queue => Queue' BY <1>2, <1>3, <1>4 DEF Queue
<1> QED BY <1>2, <1>3, <1>4, <1>5 DEF SameQueue


-----------------------------------------------------------------------------
(* sink_it_ and flush_: a logger that finds the pool holds it; one that    *)
(* does not refuses the message.                                           *)
LEMMA SinkIt ==
  ASSUME Sound, NEW p \in Producers, sink_it_(p)
  PROVE  Sound' /\ Effect
<1> DEFINE m == <<p, call[p] + 1>>
<1> USE DEF Sound
<1>1. /\ pc[p] = "idle" /\ call[p] < Len(Program[p]) /\ UNCHANGED queueVars
      /\ UNCHANGED <<policy, workers, pool, left, out>>
      BY DEF sink_it_
<1>2. /\ workers # {} /\ workers \cap Posters = {} /\ Producers \subseteq Posters
      /\ p # Owner /\ DOMAIN pc = Posters \cup workers /\ p \notin workers /\ p \in Posters
      BY Names, NamesAssumption
<1>3. m \in LogMessages /\ m \in Messages
  <2>1. call[p] + 1 \in 1 .. Len(Program[p]) BY <1>1, LogMessage DEF Typed
  <2> QED BY <2>1, LogMessage DEF Messages
<1>4. SameQueue /\ Queue' BY <1>1, QueueUnchanged
<1>5. CASE holders # {}
  <2>1. /\ holders' = holders \cup {p} /\ item' = [item EXCEPT ![p] = m]
        /\ pc' = [pc EXCEPT ![p] = "post"] /\ UNCHANGED <<call, refused>>
        BY <1>5 DEF sink_it_, Goto
  <2>2. Alive /\ p \notin holders /\ pool = "alive"
        BY <1>1, <1>5 DEF Lifetime, Typed, Alive, Dying, Gone
  <2>3. Typed' BY <1>1, <1>2, <1>3, <2>1 DEF Typed, PosterLabels, WorkerLabels
  <2>4. Lifetime'
    <3>1. Alive' BY <1>1, <1>2, <2>1, <2>2 DEF Alive, Typed
    <3> QED BY <1>1, <2>2, <3>1 DEF Lifetime
  <2>5. Items'
    <3>1. \A w \in workers : item'[w] = item[w] /\ pc'[w] = pc[w]
          BY <1>2, <2>1 DEF Typed
    <3>2. \A t \in Posters \ {p} : item'[t] = item[t] /\ pc'[t] = pc[t]
          BY <2>1 DEF Typed
    <3>3. item'[p] = m /\ m = <<p, call[p] + 1>> /\ holders' # {} BY <1>2, <2>1 DEF Typed
    <3>4. \A w \in workers : item'[w] = None <=> pc'[w] \notin {"notify", "process"}
          BY <3>1 DEF Items
    <3>5. ASSUME NEW t \in Posters, pc'[t] \in {"post", "blocked"}
          PROVE  t \in Producers /\ item'[t] = <<t, call[t] + 1>> /\ item'[t] \in LogMessages
      <4>1. CASE t = p BY <1>3, <3>3, <4>1
      <4>2. CASE t # p BY <1>5, <3>2, <3>5, <4>2 DEF Items
      <4> QED BY <4>1, <4>2
    <3> QED BY <1>1, <2>1, <3>3, <3>4, <3>5 DEF Items
  <2>6. SameHands BY <1>2, <2>1 DEF SameHands, Typed
  <2>7. SameSent BY <1>1, <1>2, <2>1, <2>2 DEF SameSent, Sent, Typed
  <2>8. \A w \in workers : pc'[w] = pc[w] BY <1>2, <2>1 DEF Typed
  <2>9. \A u \in Posters : pc'[u] = "notify" <=> pc[u] = "notify" BY <1>1, <2>1 DEF Typed
  <2>10. Ages BY <1>1, <2>9, AgesSame
  <2> QED BY <1>1, <1>4, <2>1, <2>3, <2>4, <2>5, <2>6, <2>7, <2>8, <2>10 DEF Effect, QuietStep
<1>6. CASE holders = {}
  <2>1. /\ refused' = refused \cup {m} /\ call' = [call EXCEPT ![p] = @ + 1]
        /\ UNCHANGED <<holders, pc, item>>
        BY <1>6 DEF sink_it_
  <2>2. Typed' BY <1>1, <2>1 DEF Typed
  <2>3. Lifetime' BY <1>1, <1>6, <2>1 DEF Lifetime, Alive, Dying, Gone
  <2>4. Items' BY <1>1, <1>6, <2>1 DEF Items
  <2>5. SameHands BY <2>1 DEF SameHands
  <2>6. m = <<p, Sent(p) + 1>> BY <1>6 DEF Sent
  <2>7. \A q \in Producers : Sent(q)' = IF q = p THEN Sent(q) + 1 ELSE Sent(q)
        BY <1>6, <2>1 DEF Sent, Typed
  <2>8. RefuseStep(p) BY <1>1, <1>3, <1>4, <2>1, <2>5, <2>6, <2>7 DEF RefuseStep
  <2> QED BY <1>1, <1>4, <2>2, <2>3, <2>4, <2>8 DEF Effect
<1> QED BY <1>5, <1>6

(* post_async_msg_: the message is in the queue, or the caller blocks.     *)
LEMMA PostAsyncMsg ==
  ASSUME Sound, NEW t \in Posters, post_async_msg_(t)
  PROVE  Sound' /\ Effect
<1> USE DEF Sound
<1>1. /\ pc[t] = "post"
      /\ UNCHANGED <<policy, workers, holders, pool, left, call, out, refused>>
      BY DEF post_async_msg_, poolVars
<1>2. /\ workers \cap Posters = {} /\ Producers \subseteq Posters
      /\ DOMAIN pc = Posters \cup workers /\ t \notin workers
      BY Names
<1>3. /\ \A u \in Posters : pc'[u] = pc[u] \/ (u = t /\ pc'[u] \in {"blocked", "notify"})
      /\ \A w \in workers : pc'[w] = pc[w] /\ item'[w] = item[w]
      /\ pc' \in [Posters \cup workers -> PosterLabels \cup WorkerLabels]
      BY <1>1, <1>2 DEF post_async_msg_, Goto, Typed, PosterLabels
<1>4. Lifetime'
  <2>1. CASE pool = "alive"
    <3>1. Alive BY <2>1 DEF Lifetime
    <3>2. t \in holders /\ t \in Producers BY <1>1, <3>1 DEF Alive, Posters
    <3>3. Alive' BY <1>1, <1>2, <1>3, <3>1, <3>2, NamesAssumption DEF Alive, Posters
    <3> QED BY <1>1, <2>1, <3>3 DEF Lifetime
  <2>2. CASE pool = "dying"
    <3>1. Dying BY <2>2 DEF Lifetime
    <3>2. PICK d \in Posters :
            /\ pc[d] \in {"post", "blocked", "notify", "join"}
            /\ (pc[d] = "join" <=> left = 0)
            /\ \A u \in Posters \ {d} : pc[u] \in {"idle", "done"}
          BY <3>1 DEF Dying
    <3>3. d = t BY <1>1, <3>2
    <3>4. pc'[t] \in {"post", "blocked", "notify"} BY <1>1, <1>3
    <3>5. \A u \in Posters \ {t} : pc'[u] \in {"idle", "done"} BY <1>3, <3>2, <3>3
    <3>6. pc'[Owner] # "idle" BY <1>1, <1>3, <3>1 DEF Dying, Posters
    <3>7. Dying' BY <1>1, <3>1, <3>2, <3>3, <3>4, <3>5, <3>6 DEF Dying
    <3> QED BY <1>1, <2>2, <3>7 DEF Lifetime
  <2>3. CASE pool = "gone" BY <1>1, <2>3 DEF Lifetime, Gone
  <2> QED BY <2>1, <2>2, <2>3 DEF Typed
<1>5. SameHands BY <1>3 DEF SameHands
<1>6. CASE full /\ ~MayOverrun(item[t])
  <2>1. pc' = [pc EXCEPT ![t] = "blocked"] /\ UNCHANGED item /\ UNCHANGED queueVars
        BY <1>6 DEF post_async_msg_, Goto
  <2>2. SameQueue /\ Queue' BY <2>1, QueueUnchanged
  <2>3. Typed' BY <1>1, <1>2, <1>3, <2>1 DEF Typed, PosterLabels
  <2>4. Items' BY <1>1, <1>2, <1>3, <2>1 DEF Items, Typed
  <2>5. SameSent BY <1>1, <1>2, <2>1 DEF SameSent, Sent, Typed
  <2>6. \A u \in Posters : pc'[u] = "notify" <=> pc[u] = "notify" BY <1>1, <2>1 DEF Typed
  <2>7. Ages BY <1>1, <2>6, AgesSame
  <2> QED BY <1>1, <1>3, <1>4, <1>5, <2>2, <2>3, <2>4, <2>5, <2>7 DEF Effect, QuietStep
<1>7. CASE ~(full /\ ~MayOverrun(item[t]))
  <2> DEFINE m == item[t]
  <2>1. /\ push_back(m) /\ pc' = [pc EXCEPT ![t] = "notify"]
        /\ item' = [item EXCEPT ![t] = None]
        BY <1>7 DEF post_async_msg_, Goto
  <2>2. m \in Messages /\ IF holders = {} THEN m = Terminate
                          ELSE t \in Producers /\ m = <<t, call[t] + 1>> /\ m \in LogMessages
        BY <1>1 DEF Items, Messages
  <2>3. Typed' BY <1>1, <1>2, <1>3, <2>1 DEF Typed, PosterLabels
  <2>4. Items' BY <1>1, <1>2, <1>3, <2>1 DEF Items, Typed
  <2>5. Moves(t, "notify") BY <2>1 DEF Moves, Typed
  <2>6. Sends(m)
    <3>1. CASE holders = {}
      <4>1. pool = "dying" /\ SameSent
            BY <1>1, <3>1 DEF Lifetime, Alive, Gone, Typed, SameSent, Sent
      <4> QED BY <1>1, <2>2, <2>5, <3>1, <4>1 DEF Sends
    <3>2. CASE holders # {}
      <4>1. pool = "alive" /\ Alive BY <3>2 DEF Lifetime, Dying, Gone, Typed
      <4>2. t \in Producers /\ m = <<t, call[t] + 1>> /\ m \in LogMessages BY <2>2, <3>2
      <4>3. t \in holders BY <1>1, <4>1, <4>2 DEF Alive
      <4>4. m[1] = t /\ m[2] = Sent(t) + 1 BY <1>1, <4>2 DEF Sent
      <4>5. \A p \in Producers : Sent(p)' = IF p = t THEN Sent(p) + 1 ELSE Sent(p)
            BY <1>1, <1>2, <2>1, <4>3 DEF Sent, Typed
      <4> QED BY <1>1, <2>5, <4>1, <4>2, <4>4, <4>5 DEF Sends
    <3> QED BY <3>1, <3>2
  <2>7. CASE ~full
    <3>1. /\ Queue' /\ Size' = Size + 1 /\ dropped' = dropped
          /\ \A i \in 1 .. Size + 1 : At(i)' = IF i = Size + 1 THEN m ELSE At(i)
          BY <2>1, <2>2, <2>7, PushRoom
    <3>2. Size < MaxItems BY <2>7, SizeSays, SlotsIs
    <3>3. PutStep(m) BY <1>1, <1>5, <2>6, <3>1, <3>2 DEF PutStep
    <3> QED BY <1>1, <1>4, <2>2, <2>3, <2>4, <3>1, <3>3 DEF Effect
  <2>8. CASE full
    <3>1. /\ Queue' /\ Size' = Size /\ dropped' = dropped \cup {At(1)}
          /\ \A i \in 1 .. Size : At(i)' = IF i = Size THEN m ELSE At(i + 1)
          BY <2>1, <2>2, <2>8, PushFull
    <3>2. MayOverrun(m) /\ Size = MaxItems BY <1>7, <2>8, SizeSays
    <3>3. OverrunStep(m) BY <1>1, <1>5, <2>6, <3>1, <3>2 DEF OverrunStep
    <3> QED BY <1>1, <1>4, <2>2, <2>3, <2>4, <3>1, <3>3 DEF Effect
  <2> QED BY <2>7, <2>8
<1> QED BY <1>6, <1>7

(* NotifyPush: the caller goes on, and at most one waiting worker with it. *)
LEMMA NotifyPushMoves ==
  ASSUME Typed, NEW t \in Posters, NotifyPush(t)
  PROVE  /\ pc[t] = "notify" /\ pc'[t] = AfterPost(t)
         /\ \A u \in Posters \ {t} : pc'[u] = pc[u]
         /\ \A w \in workers : pc'[w] = pc[w] \/ (pc[w] = "waiting" /\ pc'[w] = "look")
         /\ pc' \in [Posters \cup workers -> PosterLabels \cup WorkerLabels]
<1> DEFINE next == [pc EXCEPT ![t] = AfterPost(t)]
<1>1. workers \cap Posters = {} /\ DOMAIN pc = Posters \cup workers /\ t \notin workers BY Names
<1>2. pc[t] = "notify" BY DEF NotifyPush
<1>3. AfterPost(t) \in PosterLabels BY DEF AfterPost, PosterLabels
<1>4. \A w \in Waiting("waiting") : w \in workers /\ pc[w] = "waiting"
      BY <1>1 DEF Waiting, Typed, PosterLabels
<1>5. (\E w \in Waiting("waiting") : pc' = [next EXCEPT ![w] = "look"]) \/ pc' = next
      BY DEF NotifyPush
<1>6. CASE pc' = next BY <1>1, <1>2, <1>3, <1>6 DEF Typed
<1>7. ASSUME NEW w \in Waiting("waiting"), pc' = [next EXCEPT ![w] = "look"]
      PROVE  /\ pc'[t] = AfterPost(t)
             /\ \A u \in Posters \ {t} : pc'[u] = pc[u]
             /\ \A v \in workers : pc'[v] = pc[v] \/ (pc[v] = "waiting" /\ pc'[v] = "look")
             /\ pc' \in [Posters \cup workers -> PosterLabels \cup WorkerLabels]
  <2>1. w \in workers /\ pc[w] = "waiting" /\ w \notin Posters BY <1>1, <1>4
  <2>2. \A u \in Posters \cup workers :
          pc'[u] = IF u = w THEN "look" ELSE IF u = t THEN AfterPost(t) ELSE pc[u]
        BY <1>1, <1>7 DEF Typed
  <2>3. pc' \in [Posters \cup workers -> PosterLabels \cup WorkerLabels]
        BY <1>1, <1>3, <1>7 DEF Typed, WorkerLabels
  <2> QED BY <1>1, <2>1, <2>2, <2>3
<1> QED BY <1>2, <1>5, <1>6, <1>7

(* notify_one after a push: a worker that waits may go on, nothing else    *)
(* changes.                                                                *)
LEMMA NotifyPushKeeps ==
  ASSUME Sound, NEW t \in Posters, NotifyPush(t)
  PROVE  Sound' /\ Effect
<1> USE DEF Sound
<1>1. UNCHANGED <<policy, workers, holders, pool, call, out, refused>> /\ UNCHANGED queueVars
      BY DEF NotifyPush
<1>2. /\ workers \cap Posters = {} /\ Producers \subseteq Posters
      /\ t \notin workers /\ DOMAIN pc = Posters \cup workers
      BY Names
<1>3. /\ pc[t] = "notify" /\ pc'[t] = AfterPost(t)
      /\ \A u \in Posters \ {t} : pc'[u] = pc[u]
      /\ \A w \in workers : pc'[w] = pc[w] \/ (pc[w] = "waiting" /\ pc'[w] = "look")
      /\ pc' \in [Posters \cup workers -> PosterLabels \cup WorkerLabels]
      BY NotifyPushMoves
<1>4. SameQueue /\ Queue' BY <1>1, QueueUnchanged
<1>5. CASE holders # {}
  <2>1. pool = "alive" /\ Alive BY <1>5 DEF Lifetime, Dying, Gone, Typed
  <2>2. pc'[t] = "release" /\ UNCHANGED <<left, item>> BY <1>3, <1>5 DEF AfterPost, NotifyPush
  <2>3. t \in Producers /\ t \in holders BY <1>3, <2>1, <2>2 DEF Alive, Posters
  <2>4. Typed' BY <1>1, <1>3, <2>2 DEF Typed, PosterLabels, WorkerLabels
  <2>5. Alive' BY <1>1, <1>2, <1>3, <2>1, <2>2, <2>3, NamesAssumption DEF Alive, Posters
  <2>6. Lifetime' BY <1>1, <2>1, <2>5 DEF Lifetime
  <2>7. Items' BY <1>1, <1>3, <2>2 DEF Items
  <2>8. SameHands BY <2>2 DEF SameHands
  <2>9. SameSent BY <1>1, <1>2, <1>3, <2>2 DEF SameSent, Sent
  <2>10. Ages BY <1>1, <2>1, <2>2 DEF Ages
  <2> QED BY <1>1, <1>3, <1>4, <2>4, <2>6, <2>7, <2>8, <2>9, <2>10 DEF Effect, QuietStep
<1>6. CASE holders = {}
  <2>1. /\ pc'[t] = (IF left > 1 THEN "post" ELSE "join") /\ left' = left - 1
        /\ item' = [item EXCEPT ![t] = IF left > 1 THEN Terminate ELSE None]
        BY <1>3, <1>6 DEF AfterPost, NotifyPush
  <2>2. pool = "dying" /\ Dying BY <1>3, <1>6 DEF Lifetime, Alive, Gone, Typed
  <2>3. /\ \A u \in Posters \ {t} : pc[u] \in {"idle", "done"} /\ pc'[u] = pc[u]
        /\ left > 0
        BY <1>3, <2>2 DEF Dying, Typed
  <2>4. Dying'
    <3>1. pc'[Owner] # "idle" BY <1>3, <2>1, <2>2 DEF Dying, Posters
    <3>2. pc'[t] = "join" <=> left' = 0 BY <2>1, <2>3 DEF Typed
    <3> QED BY <1>1, <1>6, <2>1, <2>3, <3>1, <3>2 DEF Dying
  <2>5. Lifetime' BY <1>1, <2>2, <2>4 DEF Lifetime
  <2>6. \A w \in workers : item'[w] = item[w] BY <1>2, <2>1 DEF Typed
  <2>7. item'[t] = IF left > 1 THEN Terminate ELSE None BY <2>1 DEF Typed
  <2>8. Items' BY <1>1, <1>3, <1>6, <2>1, <2>3, <2>6, <2>7 DEF Items
  <2>9. SameHands /\ SameSent BY <1>1, <1>6, <2>6 DEF SameHands, SameSent, Sent
  <2>10. Typed'
    <3>1. left' \in Nat BY <2>1, <2>3 DEF Typed
    <3>2. item' \in [Posters \cup workers -> Messages \cup {None}]
          BY <2>1 DEF Typed, Messages
    <3> QED BY <1>1, <1>3, <2>1, <2>3, <3>1, <3>2 DEF Typed, PosterLabels, WorkerLabels
  <2>11. ToPost = left - 1 /\ ToPost' = left'
    <3>1. \A u \in Posters : pc'[u] # "notify" BY <2>1, <2>3
    <3> QED BY <1>3, <3>1 DEF ToPost
  <2>12. Ages BY <1>1, <2>1, <2>2, <2>11 DEF Ages
  <2> QED BY <1>1, <1>3, <1>4, <2>5, <2>8, <2>9, <2>10, <2>12 DEF Effect, QuietStep
<1> QED BY <1>5, <1>6

(* Who drops the last shared_ptr becomes the only poster and has one       *)
(* termination message per worker to post; anybody else just leaves.       *)
LEMMA Drop ==
  ASSUME Sound, Alive, pool = "alive", NEW t \in holders,
         DropPool(t, IF t = Owner THEN "done" ELSE "idle"),
         UNCHANGED <<policy, workers>>, call' \in [Producers -> Nat],
         \A p \in Producers \ {t} : call'[p] = call[p]
  PROVE  /\ Typed' /\ Lifetime' /\ Items' /\ SameHands /\ Ages
         /\ \A w \in workers : pc'[w] = pc[w]
<1> USE DEF Sound
<1> DEFINE label == IF t = Owner THEN "done" ELSE "idle"
<1>1. /\ workers \cap Posters = {} /\ Producers \subseteq Posters /\ Owner \in Posters
      /\ t \in Posters /\ t \notin workers /\ IsFiniteSet(workers) /\ workers # {}
      BY Names DEF Typed
<1>2. holders' = holders \ {t} BY DEF DropPool
<1>3. CASE holders' = {}
  <2>1. /\ pool' = "dying" /\ left' = Cardinality(workers)
        /\ item' = [item EXCEPT ![t] = Terminate] /\ pc' = [pc EXCEPT ![t] = "post"]
        BY <1>3 DEF DropPool, Goto
  <2>2. holders = {t} BY <1>2, <1>3
  <2>3. left' \in Nat /\ left' # 0
        BY <1>1, <2>1, FS_CardinalityType, FS_EmptySet
  <2>4. Typed' BY <1>1, <1>2, <2>1, <2>3 DEF Typed, Messages, PosterLabels, WorkerLabels
  <2>5. pc'[t] = "post" /\ \A u \in Posters \ {t} : pc'[u] = pc[u] BY <1>1, <2>1 DEF Typed
  <2>6. \A u \in Posters \ {t} : pc[u] \in {"idle", "done"} /\ (u = Owner => pc[u] = "done")
        BY <2>2, NamesAssumption DEF Alive, Posters
  <2>7. Dying' BY <1>1, <1>3, <2>3, <2>5, <2>6 DEF Dying
  <2>8. \A w \in workers : item'[w] = item[w] /\ pc'[w] = pc[w] BY <1>1, <2>1 DEF Typed
  <2>9. item'[t] = Terminate BY <1>1, <2>1 DEF Typed
  <2>10. Items' BY <1>3, <2>5, <2>6, <2>8, <2>9 DEF Items
  <2>11. Ages
    <3>1. \A u \in Posters : pc'[u] # "notify" BY <2>5, <2>6
    <3>2. ToPost' = Cardinality(workers) BY <2>1, <3>1 DEF ToPost
    <3> QED BY <2>1, <3>2 DEF Ages
  <2> QED BY <2>1, <2>4, <2>7, <2>8, <2>10, <2>11 DEF Lifetime, SameHands
<1>4. CASE holders' # {}
  <2>1. UNCHANGED <<pool, left, item>> /\ pc' = [pc EXCEPT ![t] = label]
        BY <1>4 DEF DropPool, Goto
  <2>2. Typed' BY <1>1, <1>2, <2>1 DEF Typed, PosterLabels, WorkerLabels
  <2>3. pc'[t] = label /\ \A u \in Posters \ {t} : pc'[u] = pc[u] BY <1>1, <2>1 DEF Typed
  <2>4. \A w \in workers : pc'[w] = pc[w] BY <1>1, <2>1 DEF Typed
  <2>5. Alive' BY <1>1, <1>2, <1>4, <2>3, NamesAssumption DEF Alive
  <2>6. ASSUME NEW u \in Posters, pc'[u] \in {"post", "blocked"}
        PROVE  u \in Producers /\ item'[u] = <<u, call'[u] + 1>> /\ item'[u] \in LogMessages
        BY <2>1, <2>3, <2>6 DEF Items
  <2>7. Items' BY <1>4, <2>1, <2>4, <2>6 DEF Items
  <2> QED BY <2>1, <2>2, <2>4, <2>5, <2>7 DEF Lifetime, SameHands, Ages
<1> QED BY <1>3, <1>4

(* The shared_ptr that async_logger::log took goes: a logger may be the    *)
(* last owner, and then it runs the pool's destructor.                     *)
LEMMA ReleaseKeeps ==
  ASSUME Sound, NEW p \in Producers, Release(p)
  PROVE  Sound' /\ Effect
<1> USE DEF Sound
<1>1. /\ pc[p] = "release" /\ DropPool(p, "idle") /\ call' = [call EXCEPT ![p] = @ + 1]
      /\ UNCHANGED <<policy, workers, out, refused>> /\ UNCHANGED queueVars
      BY DEF Release
<1>2. p # Owner /\ p \in Posters /\ Producers \subseteq Posters BY NamesAssumption DEF Posters
<1>3. pool = "alive" /\ Alive /\ p \in holders
      BY <1>1, <1>2 DEF Lifetime, Alive, Dying, Gone, Typed
<1>4. call' \in [Producers -> Nat] /\ \A q \in Producers \ {p} : call'[q] = call[q]
      BY <1>1 DEF Typed
<1>5. /\ Typed' /\ Lifetime' /\ Items' /\ SameHands /\ Ages
      /\ \A w \in workers : pc'[w] = pc[w]
      BY <1>1, <1>2, <1>3, <1>4, Drop
<1>6. SameQueue /\ Queue' BY <1>1, QueueUnchanged
<1>7. /\ holders' = holders \ {p} /\ \A u \in Posters \ {p} : pc'[u] = pc[u]
      BY <1>1, <1>2 DEF DropPool, Goto, Typed
<1>8. SameSent BY <1>1, <1>2, <1>3, <1>7 DEF SameSent, Sent, Typed
<1> QED BY <1>1, <1>3, <1>5, <1>6, <1>8 DEF Effect, QuietStep

(* The registry gives up its pointer to the pool, and runs the destructor  *)
(* if it is the last owner.                                                *)
LEMMA ShutdownKeeps ==
  ASSUME Sound, shutdown
  PROVE  Sound' /\ Effect
<1> USE DEF Sound
<1>1. /\ pc[Owner] = "idle" /\ DropPool(Owner, "done")
      /\ UNCHANGED <<policy, workers, call, out, refused>> /\ UNCHANGED queueVars
      BY DEF shutdown
<1>2. Owner \notin Producers /\ Owner \in Posters /\ Producers \subseteq Posters
      BY NamesAssumption DEF Posters
<1>3. pool = "alive" /\ Alive /\ Owner \in holders
      BY <1>1, <1>2 DEF Lifetime, Alive, Dying, Gone, Typed
<1>4. /\ Typed' /\ Lifetime' /\ Items' /\ SameHands /\ Ages
      /\ \A w \in workers : pc'[w] = pc[w]
      BY <1>1, <1>3, Drop DEF Typed
<1>5. SameQueue /\ Queue' BY <1>1, QueueUnchanged
<1>6. /\ holders' = holders \ {Owner} /\ \A u \in Posters \ {Owner} : pc'[u] = pc[u]
      BY <1>1, <1>2 DEF DropPool, Goto, Typed
<1>7. SameSent BY <1>1, <1>2, <1>6 DEF SameSent, Sent, Typed
<1> QED BY <1>1, <1>3, <1>4, <1>5, <1>7 DEF Effect, QuietStep

(* The destructor ends when every worker has exited.                       *)
LEMMA JoinKeeps ==
  ASSUME Sound, NEW t \in Posters, Join(t)
  PROVE  Sound' /\ Effect
<1> USE DEF Sound
<1>1. /\ pc[t] = "join" /\ \A w \in workers : pc[w] = "exited"
      /\ pool' = "gone" /\ pc' = [pc EXCEPT ![t] = IF t = Owner THEN "done" ELSE "idle"]
      /\ UNCHANGED <<policy, workers, holders, left, item, call, out, refused>>
      /\ UNCHANGED queueVars
      BY DEF Join, Goto
<1>2. workers \cap Posters = {} /\ Producers \subseteq Posters /\ Owner \in Posters BY Names
<1>3. pool = "dying" /\ Dying BY <1>1 DEF Lifetime, Alive, Gone, Typed, Posters
<1>4. \A u \in Posters \ {t} : pc[u] \in {"idle", "done"} BY <1>1, <1>3 DEF Dying
<1>5. /\ \A w \in workers : pc'[w] = pc[w] /\ \A u \in Posters \ {t} : pc'[u] = pc[u]
      /\ pc'[t] = IF t = Owner THEN "done" ELSE "idle"
      BY <1>1, <1>2 DEF Typed
<1>6. Typed' BY <1>1, <1>2 DEF Typed, PosterLabels, WorkerLabels
<1>7. Gone' BY <1>1, <1>2, <1>3, <1>4, <1>5 DEF Gone, Dying
<1>8. Lifetime' BY <1>1, <1>7 DEF Lifetime
<1>9. Items' BY <1>1, <1>4, <1>5 DEF Items
<1>10. SameQueue /\ Queue' BY <1>1, QueueUnchanged
<1>11. SameHands /\ SameSent BY <1>1, <1>3 DEF SameHands, SameSent, Sent, Dying
<1>12. ToPost = 0
  <2>1. left = 0 BY <1>1, <1>3 DEF Dying
  <2>2. \A u \in Posters : pc[u] # "notify" BY <1>1, <1>4
  <2> QED BY <2>1, <2>2 DEF ToPost
<1>13. Ages BY <1>1, <1>3, <1>12 DEF Ages
<1> QED BY <1>1, <1>5, <1>6, <1>8, <1>9, <1>10, <1>11, <1>13 DEF Effect, QuietStep

(* A worker's step, and a wake-up, leaves the posters where they are but   *)
(* for one that was blocked.                                               *)
LEMMA PostersStay ==
  ASSUME Sound, UNCHANGED <<policy, workers, holders, pool, left, call>>,
         \A u \in Posters : /\ pc'[u] = pc[u] \/ (pc[u] = "blocked" /\ pc'[u] = "post")
                            /\ item'[u] = item[u],
         \A w \in workers : pc[w] = "exited" => pc'[w] = "exited"
  PROVE  /\ Lifetime' /\ SameSent
         /\ (\A w \in workers : item'[w] = None <=> pc'[w] \notin {"notify", "process"}) => Items'
<1> USE DEF Sound
<1>1. Owner \in Posters /\ Producers \subseteq Posters BY DEF Posters
<1>2. Lifetime'
  <2>1. CASE pool = "alive" BY <1>1, <2>1 DEF Lifetime, Alive
  <2>2. CASE pool = "dying"
    <3>1. Dying BY <2>2 DEF Lifetime
    <3>2. PICK d \in Posters :
            /\ pc[d] \in {"post", "blocked", "notify", "join"}
            /\ (pc[d] = "join" <=> left = 0)
            /\ \A u \in Posters \ {d} : pc[u] \in {"idle", "done"}
          BY <3>1 DEF Dying
    <3>3. /\ pc'[d] \in {"post", "blocked", "notify", "join"}
          /\ (pc'[d] = "join" <=> left = 0)
          /\ \A u \in Posters \ {d} : pc'[u] \in {"idle", "done"}
          BY <3>2
    <3>4. Dying' BY <1>1, <3>1, <3>3 DEF Dying
    <3> QED BY <2>2, <3>4 DEF Lifetime
  <2>3. CASE pool = "gone" BY <1>1, <2>3 DEF Lifetime, Gone
  <2> QED BY <2>1, <2>2, <2>3 DEF Typed
<1>3. SameSent BY <1>1 DEF SameSent, Sent
<1>4. ASSUME \A w \in workers : item'[w] = None <=> pc'[w] \notin {"notify", "process"}
      PROVE  Items'
      BY <1>4 DEF Items
<1> QED BY <1>2, <1>3, <1>4

(* dequeue_for: the oldest message is taken, or the worker waits.          *)
LEMMA DequeueKeeps ==
  ASSUME Sound, NEW w \in workers, dequeue_for(w)
  PROVE  Sound' /\ Effect
<1> USE DEF Sound
<1>1. /\ pc[w] = "look"
      /\ UNCHANGED <<policy, workers, holders, pool, left, call, out, refused>>
      BY DEF dequeue_for, poolVars
<1>2. /\ workers \cap Posters = {} /\ DOMAIN pc = Posters \cup workers /\ w \notin Posters
      BY Names
<1>3. item[w] = None BY <1>1 DEF Items
<1>4. CASE empty
  <2>1. pc' = [pc EXCEPT ![w] = "waiting"] /\ UNCHANGED item /\ UNCHANGED queueVars
        BY <1>4 DEF dequeue_for, Goto
  <2>2. /\ \A u \in Posters : pc'[u] = pc[u] /\ item'[u] = item[u]
        /\ \A v \in workers : pc'[v] = IF v = w THEN "waiting" ELSE pc[v]
        BY <1>2, <2>1 DEF Typed
  <2>3. \A v \in workers : item'[v] = None <=> pc'[v] \notin {"notify", "process"}
        BY <1>1, <2>1, <2>2 DEF Items
  <2>4. Lifetime' /\ SameSent /\ Items' BY <1>1, <2>2, <2>3, PostersStay
  <2>5. Typed' BY <1>1, <1>2, <2>1 DEF Typed, WorkerLabels
  <2>6. SameQueue /\ Queue' BY <2>1, QueueUnchanged
  <2>7. Ages BY <1>1, <2>2, AgesSame
  <2>8. \A v \in workers : pc'[v] = "exited" <=> pc[v] = "exited" BY <1>1, <2>2
  <2> QED BY <1>1, <2>1, <2>4, <2>5, <2>6, <2>7, <2>8 DEF Effect, QuietStep, SameHands
<1>5. CASE ~empty
  <2>1. pop_front(w) /\ pc' = [pc EXCEPT ![w] = "notify"] BY <1>5 DEF dequeue_for, Goto
  <2>2. /\ Queue' /\ Size' = Size - 1 /\ Size > 0 /\ dropped' = dropped
        /\ item' = [item EXCEPT ![w] = At(1)] /\ At(1) \in Messages
        /\ \A i \in 1 .. Size - 1 : At(i)' = At(i + 1)
        BY <1>5, <2>1, PopFront
  <2>3. At(1) # None BY <2>2, LogMessage
  <2>4. /\ \A u \in Posters : pc'[u] = pc[u] /\ item'[u] = item[u]
        /\ \A v \in workers : /\ pc'[v] = IF v = w THEN "notify" ELSE pc[v]
                              /\ item'[v] = IF v = w THEN At(1) ELSE item[v]
        BY <1>2, <2>1, <2>2 DEF Typed
  <2>5. \A v \in workers : item'[v] = None <=> pc'[v] \notin {"notify", "process"}
        BY <2>3, <2>4 DEF Items
  <2>6. Lifetime' /\ SameSent /\ Items' BY <1>1, <2>4, <2>5, PostersStay
  <2>7. Typed' BY <1>1, <1>2, <2>1, <2>2 DEF Typed, WorkerLabels
  <2>8. Moves(w, "notify") BY <2>1 DEF Moves, Typed
  <2>9. TakeStep(w) BY <1>1, <1>3, <2>2, <2>4, <2>6, <2>8 DEF TakeStep
  <2> QED BY <1>1, <2>2, <2>6, <2>7, <2>9 DEF Effect
<1> QED BY <1>4, <1>5

(* A spurious wake-up, or the timeout of dequeue_for: the thread looks at  *)
(* the queue again and nothing else changes.                               *)
LEMMA WakeKeeps ==
  ASSUME Sound, NEW t \in DOMAIN pc, WakeUnnotified(t)
  PROVE  Sound' /\ Effect
<1> USE DEF Sound
<1>1. /\ pc[t] \in {"waiting", "blocked"}
      /\ pc' = [pc EXCEPT ![t] = IF pc[t] = "waiting" THEN "look" ELSE "post"]
      /\ UNCHANGED <<policy, workers, holders, pool, left, item, call, out, refused>>
      /\ UNCHANGED queueVars
      BY DEF WakeUnnotified, Goto, poolVars
<1>2. workers \cap Posters = {} /\ DOMAIN pc = Posters \cup workers BY Names
<1>3. /\ pc[t] = "waiting" => t \in workers
      /\ pc[t] = "blocked" => t \in Posters
      BY <1>2 DEF Typed, PosterLabels, WorkerLabels
<1>4. /\ \A u \in Posters : pc'[u] = pc[u] \/ (pc[u] = "blocked" /\ pc'[u] = "post")
      /\ \A w \in workers : pc'[w] = pc[w] \/ (pc[w] = "waiting" /\ pc'[w] = "look")
      BY <1>1, <1>2, <1>3 DEF Typed
<1>5. \A w \in workers : item'[w] = None <=> pc'[w] \notin {"notify", "process"}
      BY <1>1, <1>4 DEF Items
<1>6. \A w \in workers : pc[w] = "exited" => pc'[w] = "exited" BY <1>4
<1>7. Lifetime' /\ SameSent /\ Items' BY <1>1, <1>4, <1>5, <1>6, PostersStay
<1>8. Typed' BY <1>1, <1>2, <1>3 DEF Typed, WorkerLabels, PosterLabels
<1>9. SameQueue /\ Queue' BY <1>1, QueueUnchanged
<1>10. Ages BY <1>1, <1>4, AgesSame
<1>11. \A w \in workers : pc'[w] = "exited" <=> pc[w] = "exited" BY <1>4
<1> QED BY <1>1, <1>7, <1>8, <1>9, <1>10, <1>11 DEF Effect, QuietStep, SameHands

(* notify_one after a pop: a thread that waits for room may go on, nothing *)
(* else changes.                                                           *)
LEMMA NotifyPopKeeps ==
  ASSUME Sound, NEW w \in workers, NotifyPop(w)
  PROVE  Sound' /\ Effect
<1> USE DEF Sound
<1> DEFINE next == [pc EXCEPT ![w] = "process"]
<1>1. /\ pc[w] = "notify"
      /\ UNCHANGED <<policy, workers, holders, pool, left, item, call, out, refused>>
      /\ UNCHANGED queueVars
      /\ (\E t \in Waiting("blocked") : pc' = [next EXCEPT ![t] = "post"]) \/ pc' = next
      BY DEF NotifyPop, poolVars
<1>2. workers \cap Posters = {} /\ DOMAIN pc = Posters \cup workers /\ w \notin Posters BY Names
<1>3. \A t \in Waiting("blocked") : t \in Posters /\ pc[t] = "blocked"
      BY <1>2 DEF Waiting, Typed, WorkerLabels
<1>4. /\ \A u \in Posters : pc'[u] = pc[u] \/ (pc[u] = "blocked" /\ pc'[u] = "post")
      /\ \A v \in workers : pc'[v] = IF v = w THEN "process" ELSE pc[v]
      /\ pc' \in [Posters \cup workers -> PosterLabels \cup WorkerLabels]
  <2>1. CASE pc' = next BY <1>2, <2>1 DEF Typed, WorkerLabels
  <2>2. ASSUME NEW t \in Waiting("blocked"), pc' = [next EXCEPT ![t] = "post"]
        PROVE  /\ \A u \in Posters : pc'[u] = pc[u] \/ (pc[u] = "blocked" /\ pc'[u] = "post")
               /\ \A v \in workers : pc'[v] = IF v = w THEN "process" ELSE pc[v]
               /\ pc' \in [Posters \cup workers -> PosterLabels \cup WorkerLabels]
    <3>1. t \in Posters /\ pc[t] = "blocked" /\ t \notin workers BY <1>2, <1>3
    <3>2. \A u \in Posters \cup workers :
            pc'[u] = IF u = t THEN "post" ELSE IF u = w THEN "process" ELSE pc[u]
          BY <2>2 DEF Typed
    <3>3. pc' \in [Posters \cup workers -> PosterLabels \cup WorkerLabels]
          BY <2>2 DEF Typed, WorkerLabels, PosterLabels
    <3> QED BY <1>2, <3>1, <3>2, <3>3
  <2> QED BY <1>1, <2>1, <2>2
<1>5. \A v \in workers : item'[v] = None <=> pc'[v] \notin {"notify", "process"}
      BY <1>1, <1>4 DEF Items
<1>6. \A v \in workers : pc[v] = "exited" => pc'[v] = "exited" BY <1>1, <1>4
<1>7. Lifetime' /\ SameSent /\ Items' BY <1>1, <1>4, <1>5, <1>6, PostersStay
<1>8. Typed' BY <1>1, <1>4 DEF Typed, WorkerLabels, PosterLabels
<1>9. SameQueue /\ Queue' BY <1>1, QueueUnchanged
<1>10. Ages BY <1>1, <1>4, AgesSame
<1>11. \A v \in workers : pc'[v] = "exited" <=> pc[v] = "exited" BY <1>1, <1>4
<1> QED BY <1>1, <1>7, <1>8, <1>9, <1>10, <1>11 DEF Effect, QuietStep, SameHands

(* process_next_msg_: the sink gets the message, or the worker exits.      *)
LEMMA ProcessKeeps ==
  ASSUME Sound, NEW w \in workers, process_next_msg_(w)
  PROVE  Sound' /\ Effect
<1> USE DEF Sound
<1> DEFINE ends == item[w] = Terminate
<1>1. /\ pc[w] = "process"
      /\ UNCHANGED <<policy, workers, holders, pool, left, call, refused>>
      /\ UNCHANGED queueVars /\ item' = [item EXCEPT ![w] = None]
      BY DEF process_next_msg_, poolVars
<1>2. workers \cap Posters = {} /\ DOMAIN pc = Posters \cup workers /\ w \notin Posters BY Names
<1>3. item[w] \in Messages /\ item[w] # None BY <1>1 DEF Items, Typed
<1>4. Kind(item[w]) = "terminate" <=> ends
  <2>1. CASE ends BY <2>1 DEF Kind
  <2>2. CASE ~ends
    <3>1. item[w] \in LogMessages BY <1>3, <2>2 DEF Messages
    <3>2. Program[item[w][1]] \in Seq({"log", "flush"}) BY <3>1, LogMessage, AsyncLogAssumption
    <3>3. Program[item[w][1]][item[w][2]] \in {"log", "flush"} BY <3>1, <3>2, LogMessage
    <3> QED BY <2>2, <3>3 DEF Kind
  <2> QED BY <2>1, <2>2
<1>5. /\ pc' = [pc EXCEPT ![w] = IF ends THEN "exited" ELSE "look"]
      /\ out' = IF ends THEN out ELSE Append(out, item[w])
      BY <1>4 DEF process_next_msg_, Goto
<1>6. /\ \A u \in Posters : pc'[u] = pc[u] /\ item'[u] = item[u]
      /\ \A v \in workers : /\ pc'[v] = IF v = w THEN IF ends THEN "exited" ELSE "look" ELSE pc[v]
                            /\ item'[v] = IF v = w THEN None ELSE item[v]
      BY <1>1, <1>2, <1>5 DEF Typed
<1>7. \A v \in workers : item'[v] = None <=> pc'[v] \notin {"notify", "process"}
      BY <1>6 DEF Items
<1>8. \A v \in workers : pc[v] = "exited" => pc'[v] = "exited" BY <1>1, <1>6
<1>9. Lifetime' /\ SameSent /\ Items' BY <1>1, <1>6, <1>7, <1>8, PostersStay
<1>10. Typed' BY <1>1, <1>2, <1>5 DEF Typed, WorkerLabels
<1>11. SameQueue /\ Queue' BY <1>1, QueueUnchanged
<1>12. Moves(w, IF ends THEN "exited" ELSE "look") BY <1>5 DEF Moves, Typed
<1>13. FinishStep(w) BY <1>1, <1>3, <1>5, <1>6, <1>9, <1>11, <1>12 DEF FinishStep
<1> QED BY <1>1, <1>9, <1>10, <1>11, <1>13 DEF Effect

-----------------------------------------------------------------------------
(* The pool that the constructor leaves is sound.                          *)
LEMMA InitSound == Init => Sound
<1> SUFFICES ASSUME Init PROVE Sound OBVIOUS
<1> USE SlotsIs
<1>1. workers \in Crews /\ workers \subseteq AllWorkers BY AsyncLogAssumption DEF Init
<1>2. workers \cap Posters = {} BY <1>1, NamesAssumption
<1>3. Owner \in Posters /\ Owner \notin Producers BY NamesAssumption DEF Posters
<1>4. Typed BY <1>1, <1>2, <1>3 DEF Typed, Init, PosterLabels, WorkerLabels
<1>5. Lifetime BY <1>3 DEF Lifetime, Alive, Init, Posters
<1>6. Items BY <1>2 DEF Items, Init
<1>7. Size = 0
  <2>1. (0 + Slots - 0) % Slots = 0
    <3>1. 0 \in 0 .. MaxItems OBVIOUS
    <3> QED BY <3>1, Indices
  <2> QED BY <2>1 DEF Size, Init
<1>8. Queue BY <1>7 DEF Queue, Init
<1> QED BY <1>4, <1>5, <1>6, <1>8 DEF Sound

(* Every step keeps the pool sound and has one of six effects on the       *)
(* messages: it puts one, overruns one, takes one, finishes one, refuses   *)
(* one, or moves none.                                                     *)
LEMMA StepEffect ==
  ASSUME Sound, [Next]_vars
  PROVE  Sound' /\ Effect
<1>1. CASE UNCHANGED vars
  <2>1. /\ UNCHANGED <<policy, workers, holders, pool, left, pc, item, call, out, refused>>
        /\ UNCHANGED queueVars
        BY <1>1 DEF vars, poolVars
  <2>2. SameQueue /\ (Queue => Queue') BY <2>1, QueueUnchanged
  <2>3. Typed' /\ Lifetime' /\ Items'
        BY <2>1 DEF Sound, Typed, Lifetime, Alive, Dying, Gone, Items
  <2>4. Ages BY <2>1, AgesSame DEF Sound
  <2> QED BY <2>1, <2>2, <2>3, <2>4 DEF Sound, Effect, QuietStep, SameHands, SameSent, Sent
<1>2. ASSUME NEW t \in Posters, Post(t) PROVE Sound' /\ Effect
      BY <1>2, PostAsyncMsg, NotifyPushKeeps, JoinKeeps DEF Post
<1>3. ASSUME NEW p \in Producers, Produce(p) PROVE Sound' /\ Effect
      BY <1>2, <1>3, SinkIt, ReleaseKeeps DEF Produce, Posters
<1>4. ASSUME NEW w \in workers, Work(w) PROVE Sound' /\ Effect
      BY <1>4, DequeueKeeps, NotifyPopKeeps, ProcessKeeps DEF Work
<1> QED BY <1>1, <1>2, <1>3, <1>4, ShutdownKeeps, WakeKeeps DEF Next, Posters

(* The queue of a destroyed pool is never used: the loggers and the owner  *)
(* are between calls and the workers have exited; while the destructor     *)
(* runs, the thread that runs it is the only poster.                       *)
THEOREM NoUseAfterDestruction == Spec => []PoolOutlivesUsers
<1>1. Sound => PoolOutlivesUsers
  <2> SUFFICES ASSUME Sound PROVE PoolOutlivesUsers OBVIOUS
  <2>1. ASSUME pool = "gone" PROVE \A t \in DOMAIN pc : pc[t] \in {"idle", "done", "exited"}
        BY <2>1, Names DEF Sound, Lifetime, Gone
  <2>2. ASSUME pool = "dying"
        PROVE  Cardinality({t \in Posters : pc[t] \notin {"idle", "done"}}) = 1
    <3>1. PICK d \in Posters : /\ pc[d] \in {"post", "blocked", "notify", "join"}
                               /\ \A t \in Posters \ {d} : pc[t] \in {"idle", "done"}
          BY <2>2 DEF Sound, Lifetime, Dying
    <3>2. {t \in Posters : pc[t] \notin {"idle", "done"}} = {d} BY <3>1
    <3> QED BY <3>2, FS_Singleton
  <2> QED BY <2>1, <2>2 DEF PoolOutlivesUsers
<1> QED BY <1>1, InitSound, StepEffect, PTL DEF Spec

-----------------------------------------------------------------------------
(* The mapped queue as a sequence.                                         *)
LEMMA ContentsIs ==
  ASSUME Queue
  PROVE  /\ Contents \in Seq(Messages) /\ Len(Contents) = Size
         /\ \A i \in 1 .. Size : Contents[i] = At(i)
<1>1. Size \in Nat BY SizeSays, SlotsIs
<1>2. Contents = [i \in 1 .. Size |-> At(i)] BY DEF Contents, At
<1>3. \A i \in 1 .. Size : At(i) \in Messages BY DEF Queue
<1>4. Contents \in Seq(Messages)
  <2>1. Contents \in [1 .. Size -> Messages] BY <1>2, <1>3
  <2> QED BY <1>1, <2>1
<1> QED BY <1>1, <1>2, <1>4

(* Two sequences with the same elements are the same.                      *)
LEMMA SameSequence ==
  ASSUME NEW S, NEW a \in Seq(S), NEW b \in Seq(S), Len(a) = Len(b),
         \A i \in 1 .. Len(a) : a[i] = b[i]
  PROVE  a = b
<1>1. a \in [1 .. Len(a) -> S] /\ b \in [1 .. Len(a) -> S] OBVIOUS
<1>2. \A i \in 1 .. Len(a) : a[i] = b[i] OBVIOUS
<1> QED BY <1>1, <1>2

Hand == [w \in AllWorkers |-> IF w \in workers THEN item[w] ELSE None]
Overrunners == {m \in LogMessages : MayOverrun(m)}

(* Every step is a step of the bounded first-in first-out queue, or none   *)
(* of its business.                                                        *)
LEMMA StepRefines ==
  ASSUME Sound, Sound', Effect
  PROVE  Q!Next \/ UNCHANGED <<Overrunners, Contents, Hand>>
<1> USE SlotsIs
<1>1. Queue /\ Queue' /\ Typed /\ Typed' BY DEF Sound
<1>2. /\ Contents \in Seq(Messages) /\ Len(Contents) = Size
      /\ \A i \in 1 .. Size : Contents[i] = At(i)
      BY <1>1, ContentsIs
<1>3. /\ Contents' \in Seq(Messages) /\ Len(Contents') = Size'
      /\ \A i \in 1 .. Size' : Contents'[i] = At(i)'
  <2>1. Messages' = Messages BY DEF Messages, LogMessages, Terminate
  <2>2. (Contents \in Seq(Messages) /\ Len(Contents) = Size
          /\ \A i \in 1 .. Size : Contents[i] = At(i))'
        BY <1>1, ContentsIs, PTL
  <2> QED BY <2>1, <2>2
<1>4. UNCHANGED Overrunners
  <2>1. UNCHANGED policy BY DEF Effect
  <2> QED BY <2>1 DEF Overrunners, MayOverrun, LogMessages, Terminate
<1>5. Size \in 0 .. MaxItems BY <1>1, SizeSays
<1>6. workers' = workers /\ workers \subseteq AllWorkers BY <1>1, Names DEF Effect
<1>7. ASSUME SameHands PROVE UNCHANGED Hand BY <1>6, <1>7 DEF Hand, SameHands
<1>8. ASSUME SameQueue PROVE UNCHANGED Contents
  <2>1. Size' = Size /\ \A i \in 1 .. Size : Contents'[i] = Contents[i]
        BY <1>2, <1>3, <1>8 DEF SameQueue
  <2> QED BY <1>2, <1>3, <2>1, SameSequence
<1>9. ASSUME NEW m \in Messages, PutStep(m) PROVE Q!Put(m)
  <2>1. /\ Size < MaxItems /\ Size' = Size + 1
        /\ \A i \in 1 .. Size + 1 : At(i)' = IF i = Size + 1 THEN m ELSE At(i)
        /\ SameHands
        BY <1>9 DEF PutStep
  <2>2. Append(Contents, m) \in Seq(Messages) /\ Len(Append(Contents, m)) = Size + 1
        BY <1>2
  <2>3. ASSUME NEW i \in 1 .. Size + 1 PROVE Contents'[i] = Append(Contents, m)[i]
    <3>1. Contents'[i] = IF i = Size + 1 THEN m ELSE At(i) BY <1>3, <2>1
    <3>2. CASE i = Size + 1 BY <1>2, <3>1, <3>2
    <3>3. CASE i # Size + 1
      <4>1. i \in 1 .. Size BY <1>5, <3>3
      <4> QED BY <1>2, <3>1, <3>3, <4>1
    <3> QED BY <3>2, <3>3
  <2>4. Contents' = Append(Contents, m) BY <1>3, <2>1, <2>2, <2>3, SameSequence
  <2> QED BY <1>2, <1>4, <1>7, <2>1, <2>4 DEF Q!Put, Hand, Overrunners
<1>10. ASSUME NEW m \in Messages, OverrunStep(m) PROVE Q!Overrun(m)
  <2>1. /\ MayOverrun(m) /\ Size = MaxItems /\ Size' = Size
        /\ \A i \in 1 .. Size : At(i)' = IF i = Size THEN m ELSE At(i + 1)
        /\ SameHands
        BY <1>10 DEF OverrunStep
  <2>2. m \in Overrunners BY <2>1 DEF Overrunners, MayOverrun, Messages
  <2> DEFINE new == Append(Tail(Contents), m)
  <2>3. Tail(Contents) \in Seq(Messages) /\ Len(Tail(Contents)) = Size - 1
        /\ \A i \in 1 .. Size - 1 : Tail(Contents)[i] = Contents[i + 1]
        BY <1>2, <2>1
  <2>4. new \in Seq(Messages) /\ Len(new) = Size BY <1>5, <2>1, <2>3
  <2>5. ASSUME NEW i \in 1 .. Size PROVE Contents'[i] = new[i]
    <3>1. Contents'[i] = IF i = Size THEN m ELSE At(i + 1) BY <1>3, <2>1
    <3>2. CASE i = Size BY <1>5, <2>3, <3>1, <3>2
    <3>3. CASE i # Size
      <4>1. i \in 1 .. Size - 1 /\ i + 1 \in 1 .. Size BY <1>5, <3>3
      <4>2. new[i] = Contents[i + 1] BY <2>3, <4>1
      <4> QED BY <1>2, <3>1, <3>3, <4>1, <4>2
    <3> QED BY <3>2, <3>3
  <2>6. Contents' = new BY <1>3, <2>1, <2>4, <2>5, SameSequence
  <2> QED BY <1>2, <1>4, <1>7, <2>1, <2>2, <2>6 DEF Q!Overrun, Hand, Overrunners
<1>11. ASSUME NEW w \in workers, TakeStep(w) PROVE Q!Take(w)
  <2>1. /\ item[w] = None /\ Size > 0 /\ Size' = Size - 1
        /\ \A i \in 1 .. Size - 1 : At(i)' = At(i + 1)
        /\ \A v \in workers : item'[v] = IF v = w THEN At(1) ELSE item[v]
        BY <1>11 DEF TakeStep
  <2>2. Tail(Contents) \in Seq(Messages) /\ Len(Tail(Contents)) = Size - 1
        /\ \A i \in 1 .. Size - 1 : Tail(Contents)[i] = Contents[i + 1]
        BY <1>2, <1>5, <2>1
  <2>3. ASSUME NEW i \in 1 .. Size - 1 PROVE Contents'[i] = Tail(Contents)[i]
    <3>1. i + 1 \in 1 .. Size BY <1>5, <2>1
    <3> QED BY <1>2, <1>3, <2>1, <2>2, <3>1
  <2>4. Contents' = Tail(Contents) BY <1>3, <2>1, <2>2, <2>3, SameSequence
  <2>5. Head(Contents) = At(1) /\ Contents # <<>> BY <1>2, <1>5, <2>1
  <2>6. Hand' = [Hand EXCEPT ![w] = Head(Contents)] BY <1>6, <2>1, <2>5 DEF Hand
  <2>7. Hand[w] = None BY <1>6, <2>1 DEF Hand
  <2> QED BY <1>4, <2>4, <2>5, <2>6, <2>7 DEF Q!Take, Hand, Overrunners
<1>12. ASSUME NEW w \in workers, FinishStep(w) PROVE Q!Finish(w)
  <2>1. /\ item[w] # None /\ SameQueue
        /\ \A v \in workers : item'[v] = IF v = w THEN None ELSE item[v]
        BY <1>12 DEF FinishStep
  <2>2. Hand' = [Hand EXCEPT ![w] = None] /\ Hand[w] # None BY <1>6, <2>1 DEF Hand
  <2> QED BY <1>4, <1>8, <2>1, <2>2 DEF Q!Finish, Hand, Overrunners
<1>13. ASSUME NEW p \in Producers, RefuseStep(p)
       PROVE  UNCHANGED <<Overrunners, Contents, Hand>>
       BY <1>4, <1>7, <1>8, <1>13 DEF RefuseStep
<1>14. ASSUME QuietStep PROVE UNCHANGED <<Overrunners, Contents, Hand>>
       BY <1>4, <1>7, <1>8, <1>14 DEF QuietStep
<1> QED BY <1>6, <1>9, <1>10, <1>11, <1>12, <1>13, <1>14 DEF Effect, Q!Next, Messages

(* The circular queue under its mutex, with all the threads at it, is the  *)
(* bounded first-in first-out queue of LogQueue.                           *)
THEOREM QueueIsFirstInFirstOut == Spec => ImplementsLogQueue
<1>1. Init => Q!Init
  <2> SUFFICES ASSUME Init PROVE Q!Init OBVIOUS
  <2>1. Sound /\ Size = 0
    <3>1. Sound BY InitSound
    <3>2. empty BY DEF Init, empty
    <3> QED BY <3>1, <3>2, SizeSays DEF Sound
  <2>2. Contents = <<>> BY <2>1, ContentsIs DEF Sound
  <2>3. Hand = [w \in AllWorkers |-> None] BY DEF Hand, Init
  <2> QED BY <2>2, <2>3 DEF Q!Init, Hand
<1>2. Sound /\ [Next]_vars => Sound' /\ [Q!Next]_<<Overrunners, Contents, Hand>>
      BY StepEffect, StepRefines
<1>3. Q!Spec <=> Q!Init /\ [][Q!Next]_<<Overrunners, Contents, Hand>>
      BY DEF Q!Spec, Overrunners, Hand
<1> QED BY <1>1, <1>2, <1>3, InitSound, PTL DEF Spec, ImplementsLogQueue

-----------------------------------------------------------------------------
(* The messages of a logger are different: a message is in the queue once. *)
LEMMA QueuedOnce ==
  ASSUME Sound, Ordered, Size > 0, At(1) \in LogMessages
  PROVE  \A i \in 2 .. Size : At(i) # At(1)
<1>1. Size \in Nat /\ Size <= MaxItems BY SizeSays, SlotsIs DEF Sound
<1>2. ASSUME NEW i \in 2 .. Size, At(i) = At(1) PROVE FALSE
  <2>1. i \in 1 .. Size /\ 1 \in 1 .. Size /\ 1 < i BY <1>1
  <2>2. Before(At(1), At(i)) BY <2>1 DEF Ordered
  <2>3. At(1)[2] \in Nat /\ At(1) # Terminate BY LogMessage
  <2> QED BY <1>2, <2>2, <2>3 DEF Before
<1> QED BY <1>2

(* A logger has sent a number of messages.                                 *)
LEMMA SentTyped == Typed => \A p \in Producers : Sent(p) \in Nat
BY DEF Typed, Sent

(* A log message is sent while the pool is alive, by its logger and as the *)
(* next of it: no place has it yet.                                        *)
LEMMA SentIsNew ==
  ASSUME Sound, Accounting, NEW m \in Messages, Sends(m)
  PROVE  /\ m \in LogMessages =>
              /\ pool = "alive" /\ m[1] \in Producers /\ m[2] = Sent(m[1]) + 1
              /\ Sent(m[1])' = m[2]
              /\ ~InQueue(m) /\ ~InHand(m) /\ ~Given(m) /\ m \notin dropped
         /\ m \notin LogMessages => m = Terminate /\ pool = "dying"
         /\ \A p \in Producers : Sent(p)' \in Nat /\ Sent(p)' >= Sent(p) /\ Sent(p)' <= Len(Program[p])
         /\ \A n \in LogMessages : n # m => (n[2] <= Sent(n[1])' <=> n[2] <= Sent(n[1]))
<1>1. \A p \in Producers : Sent(p) \in Nat /\ Sent(p) <= Len(Program[p]) /\ Len(Program[p]) \in Nat
      BY SentTyped, LogMessage DEF Sound, Accounting
<1>2. CASE m \in LogMessages
  <2>1. /\ pool = "alive" /\ m[2] = Sent(m[1]) + 1
        /\ \A p \in Producers : Sent(p)' = IF p = m[1] THEN Sent(p) + 1 ELSE Sent(p)
        BY <1>2, LogMessage DEF Sends
  <2>2. m[1] \in Producers /\ m[2] \in Nat /\ m[2] <= Len(Program[m[1]])
        BY <1>2, LogMessage
  <2>3. ~(m[2] <= Sent(m[1])) BY <1>1, <2>1, <2>2
  <2>4. ~InQueue(m) /\ ~InHand(m) /\ ~Given(m) /\ m \notin dropped
        BY <1>2, <2>3 DEF Accounting, Placed
  <2>5. ASSUME NEW n \in LogMessages, n # m
        PROVE  n[2] <= Sent(n[1])' <=> n[2] <= Sent(n[1])
    <3>1. n[1] \in Producers /\ n[2] \in Nat /\ n = <<n[1], n[2]>> /\ m = <<m[1], m[2]>>
          BY <1>2, LogMessage
    <3>2. CASE n[1] = m[1]
      <4>1. n[2] # Sent(m[1]) + 1 BY <2>1, <2>5, <3>1, <3>2
      <4>2. Sent(n[1])' = Sent(m[1]) + 1 BY <2>1, <3>1, <3>2
      <4> QED BY <1>1, <2>2, <3>1, <3>2, <4>1, <4>2
    <3>3. CASE n[1] # m[1] BY <2>1, <3>1, <3>3
    <3> QED BY <3>2, <3>3
  <2> QED BY <1>1, <1>2, <2>1, <2>2, <2>4, <2>5
<1>3. CASE m \notin LogMessages
  <2>1. m = Terminate /\ pool = "dying" /\ SameSent BY <1>3 DEF Sends
  <2>2. \A p \in Producers : Sent(p)' = Sent(p) BY <2>1 DEF SameSent
  <2>3. \A n \in LogMessages : n[1] \in Producers BY LogMessage
  <2> QED BY <1>1, <1>3, <2>1, <2>2, <2>3
<1> QED BY <1>2, <1>3

(* What is in the hands of a worker and what the sink has been given.      *)
LEMMA SameHandsMeans ==
  ASSUME SameHands, UNCHANGED workers
  PROVE  /\ \A m : InHand(m)' <=> InHand(m)
         /\ \A m : (\A v, w \in workers : item[v] = m /\ item[w] = m => v = w)
                => (\A v, w \in workers : item[v] = m /\ item[w] = m => v = w)'
BY DEF SameHands, InHand

(* A step that leaves the queue's contents alone leaves every message in   *)
(* or out of it.                                                           *)
LEMMA SameQueueMeans ==
  ASSUME SameQueue
  PROVE  \A m : InQueue(m)' <=> InQueue(m)
BY DEF SameQueue, InQueue

(* enqueue puts the message that is sent into the queue and moves no       *)
(* other.                                                                  *)
LEMMA PutAccounts ==
  ASSUME Sound, Accounting, NEW m \in Messages, PutStep(m), UNCHANGED <<policy, workers>>
  PROVE  Accounting'
<1>1. /\ Sends(m) /\ Size' = Size + 1 /\ SameHands /\ UNCHANGED <<pool, out, dropped, refused>>
      /\ \A i \in 1 .. Size + 1 : At(i)' = IF i = Size + 1 THEN m ELSE At(i)
      BY DEF PutStep
<1>2. Size \in Nat BY SizeSays, SlotsIs DEF Sound
<1>3. \A n : InQueue(n)' <=> InQueue(n) \/ n = m
  <2>1. ASSUME NEW n, InQueue(n) PROVE InQueue(n)'
    <3>1. PICK i \in 1 .. Size : At(i) = n BY <2>1 DEF InQueue
    <3>2. i \in 1 .. Size + 1 /\ i # Size + 1 BY <1>2
    <3>3. i \in 1 .. Size' /\ At(i)' = n BY <1>1, <3>1, <3>2
    <3> QED BY <3>3 DEF InQueue
  <2>2. InQueue(m)'
    <3>1. Size + 1 \in 1 .. Size + 1 BY <1>2
    <3>2. \E i \in 1 .. Size + 1 : At(i)' = m BY <1>1, <3>1
    <3> QED BY <1>1, <3>2 DEF InQueue
  <2>3. ASSUME NEW n, InQueue(n)', n # m PROVE InQueue(n)
    <3>1. PICK i \in 1 .. Size + 1 : At(i)' = n BY <1>1, <2>3 DEF InQueue
    <3>2. i # Size + 1 /\ At(i) = n BY <1>1, <2>3, <3>1
    <3>3. i \in 1 .. Size BY <1>2, <3>2
    <3> QED BY <3>2, <3>3 DEF InQueue
  <2> QED BY <2>1, <2>2, <2>3
<1>4. \A n : InHand(n)' <=> InHand(n) BY <1>1, SameHandsMeans
<1>5. \A n : Given(n)' <=> Given(n) BY <1>1 DEF Given
<1>6. ASSUME NEW n \in LogMessages PROVE Placed(n)'
  <2>1. (\A v, w \in workers : item[v] = n /\ item[w] = n => v = w)'
        BY <1>1, SameHandsMeans DEF Accounting, Placed
  <2>2. CASE n = m
    <3>1. /\ ~InHand(n) /\ ~Given(n) /\ n \notin dropped /\ Sent(n[1])' = n[2]
          BY <1>1, <2>2, SentIsNew
    <3>2. n[2] \in Nat BY LogMessage
    <3> QED BY <1>1, <1>3, <1>4, <1>5, <2>1, <2>2, <3>1, <3>2 DEF Placed
  <2>3. CASE n # m
    <3>1. n[2] <= Sent(n[1])' <=> n[2] <= Sent(n[1]) BY <1>1, <2>3, SentIsNew
    <3> QED BY <1>1, <1>3, <1>4, <1>5, <2>1, <2>3, <3>1 DEF Placed, Accounting
  <2> QED BY <2>2, <2>3
<1>7. pool' = "alive" => ~InQueue(Terminate)' /\ ~InHand(Terminate)'
  <2>1. pool' = "alive" => m # Terminate BY <1>1, SentIsNew, LogMessage
  <2> QED BY <1>1, <1>3, <1>4, <2>1 DEF Accounting
<1>8. \A p \in Producers : Sent(p)' <= Len(Program[p]) BY <1>1, SentIsNew
<1> QED BY <1>1, <1>6, <1>7, <1>8 DEF Accounting, LogMessages, Terminate

(* Only a logger that may overrun does, and never a termination message:   *)
(* none is in the queue while loggers post.                                *)
LEMMA OverrunAccounts ==
  ASSUME Sound, Accounting, Ordered, NEW m \in Messages, OverrunStep(m),
         UNCHANGED <<policy, workers>>
  PROVE  Accounting'
<1>1. /\ Sends(m) /\ Size = MaxItems /\ Size' = Size /\ SameHands /\ UNCHANGED <<pool, out, refused>>
      /\ MayOverrun(m) /\ dropped' = dropped \cup {At(1)}
      /\ \A i \in 1 .. Size : At(i)' = IF i = Size THEN m ELSE At(i + 1)
      BY DEF OverrunStep
<1>2. Size \in Nat /\ Size > 0 /\ 1 \in 1 .. Size BY <1>1, SlotsIs
<1>3. m \in LogMessages /\ pool = "alive" BY <1>1, SentIsNew DEF MayOverrun
<1>4. At(1) \in LogMessages /\ InQueue(At(1))
  <2>1. InQueue(At(1)) BY <1>2 DEF InQueue
  <2>2. At(1) \in Messages BY <1>2 DEF Sound, Queue
  <2>3. At(1) # Terminate BY <1>3, <2>1 DEF Accounting
  <2> QED BY <2>1, <2>2, <2>3 DEF Messages
<1>5. m # At(1) BY <1>1, <1>3, <1>4, SentIsNew
<1>6. \A n : InQueue(n)' <=> n = m \/ (InQueue(n) /\ n # At(1))
  <2>1. ASSUME NEW n, InQueue(n), n # At(1) PROVE InQueue(n)'
    <3>1. PICK i \in 1 .. Size : At(i) = n BY <2>1 DEF InQueue
    <3>2. i # 1 BY <2>1, <3>1
    <3>3. PICK j \in 1 .. Size : j + 1 = i BY <1>2, <3>2
    <3>4. j # Size BY <1>2, <3>3
    <3>5. j \in 1 .. Size' /\ At(j)' = n BY <1>1, <3>1, <3>3, <3>4
    <3> QED BY <3>5 DEF InQueue
  <2>2. InQueue(m)'
    <3>1. Size \in 1 .. Size BY <1>2
    <3>2. \E i \in 1 .. Size : At(i)' = m BY <1>1, <3>1
    <3> QED BY <1>1, <3>2 DEF InQueue
  <2>3. ASSUME NEW n, InQueue(n)', n # m PROVE InQueue(n) /\ n # At(1)
    <3>1. PICK i \in 1 .. Size : At(i)' = n BY <1>1, <2>3 DEF InQueue
    <3>2. i # Size /\ At(i + 1) = n BY <1>1, <2>3, <3>1
    <3>3. i + 1 \in 2 .. Size /\ i + 1 \in 1 .. Size BY <1>2, <3>2
    <3>4. n # At(1) BY <1>2, <1>4, <3>2, <3>3, QueuedOnce
    <3> QED BY <3>2, <3>3, <3>4 DEF InQueue
  <2> QED BY <1>5, <2>1, <2>2, <2>3
<1>7. \A n : InHand(n)' <=> InHand(n) BY <1>1, SameHandsMeans
<1>8. \A n : Given(n)' <=> Given(n) BY <1>1 DEF Given
<1>9. ASSUME NEW n \in LogMessages PROVE Placed(n)'
  <2>1. (\A v, w \in workers : item[v] = n /\ item[w] = n => v = w)'
        BY <1>1, SameHandsMeans DEF Accounting, Placed
  <2>2. CASE n = m
    <3>1. /\ ~InHand(n) /\ ~Given(n) /\ n \notin dropped /\ Sent(n[1])' = n[2]
          BY <1>1, <2>2, SentIsNew
    <3>2. n[2] \in Nat BY LogMessage
    <3> QED BY <1>1, <1>5, <1>6, <1>7, <1>8, <2>1, <2>2, <3>1, <3>2 DEF Placed
  <2>3. CASE n # m
    <3>1. n[2] <= Sent(n[1])' <=> n[2] <= Sent(n[1]) BY <1>1, <2>3, SentIsNew
    <3>2. Placed(n) BY DEF Accounting
    <3>3. CASE n = At(1)
          BY <1>1, <1>4, <1>6, <1>7, <1>8, <2>1, <2>3, <3>1, <3>2, <3>3 DEF Placed
    <3>4. CASE n # At(1)
          BY <1>1, <1>6, <1>7, <1>8, <2>1, <2>3, <3>1, <3>2, <3>4 DEF Placed
    <3> QED BY <3>3, <3>4
  <2> QED BY <2>2, <2>3
<1>10. ~InQueue(Terminate)' /\ ~InHand(Terminate)'
       BY <1>3, <1>6, <1>7, LogMessage DEF Accounting
<1>11. \A p \in Producers : Sent(p)' <= Len(Program[p]) BY <1>1, SentIsNew
<1>12. \E p \in Producers : policy[p] = "overrun_oldest"
       BY <1>1, <1>3, LogMessage DEF MayOverrun
<1> QED BY <1>1, <1>4, <1>9, <1>10, <1>11, <1>12 DEF Accounting, LogMessages, Terminate

(* dequeue_for moves the oldest message from the queue into the worker's   *)
(* hands.                                                                  *)
LEMMA TakeAccounts ==
  ASSUME Sound, Accounting, Ordered, NEW w \in workers, TakeStep(w),
         UNCHANGED <<policy, workers>>
  PROVE  Accounting'
<1>1. /\ item[w] = None /\ Size > 0 /\ Size' = Size - 1
      /\ \A i \in 1 .. Size - 1 : At(i)' = At(i + 1)
      /\ \A v \in workers : item'[v] = IF v = w THEN At(1) ELSE item[v]
      /\ SameSent /\ UNCHANGED <<pool, out, dropped, refused>>
      BY DEF TakeStep
<1>2. Size \in Nat /\ 1 \in 1 .. Size BY <1>1, SizeSays, SlotsIs DEF Sound
<1>3. InQueue(At(1)) /\ At(1) \in Messages /\ At(1) # None
      BY <1>2, LogMessage DEF InQueue, Sound, Queue
<1>4. \A n : InQueue(n)' => InQueue(n)
  <2>1. ASSUME NEW n, InQueue(n)' PROVE InQueue(n)
    <3>1. PICK i \in 1 .. Size - 1 : At(i)' = n BY <1>1, <2>1 DEF InQueue
    <3>2. At(i + 1) = n /\ i + 1 \in 1 .. Size BY <1>1, <1>2, <3>1
    <3> QED BY <3>2 DEF InQueue
  <2> QED BY <2>1
<1>5. \A n : InQueue(n) /\ n # At(1) => InQueue(n)'
  <2>1. ASSUME NEW n, InQueue(n), n # At(1) PROVE InQueue(n)'
    <3>1. PICK i \in 1 .. Size : At(i) = n BY <2>1 DEF InQueue
    <3>2. i # 1 BY <2>1, <3>1
    <3>3. PICK j \in 1 .. Size - 1 : j + 1 = i BY <1>2, <3>2
    <3>4. j \in 1 .. Size' /\ At(j)' = n BY <1>1, <3>1, <3>3
    <3> QED BY <3>4 DEF InQueue
  <2> QED BY <2>1
<1>6. \A n \in LogMessages : n = At(1) => ~InQueue(n)'
  <2>1. ASSUME NEW n, n = At(1), n \in LogMessages, InQueue(n)' PROVE FALSE
    <3>1. PICK i \in 1 .. Size - 1 : At(i)' = n BY <1>1, <2>1 DEF InQueue
    <3>2. At(i + 1) = n /\ i + 1 \in 2 .. Size BY <1>1, <1>2, <3>1
    <3> QED BY <1>1, <2>1, <3>2, QueuedOnce
  <2> QED BY <2>1
<1>7. \A n : InHand(n)' <=> n = At(1) \/ (InHand(n) /\ n # None) \/ \E v \in workers \ {w} : item[v] = n
      BY <1>1, <1>3 DEF InHand
<1>8. \A n : Given(n)' <=> Given(n) BY <1>1 DEF Given
<1>9. ASSUME NEW n \in LogMessages PROVE Placed(n)'
  <2>1. Placed(n) /\ n # None /\ n[1] \in Producers BY LogMessage DEF Accounting, Messages
  <2>2. InHand(n)' <=> InHand(n) \/ n = At(1) BY <1>7, <2>1 DEF InHand
  <2>3. Sent(n[1])' = Sent(n[1]) BY <1>1, <2>1 DEF SameSent
  <2>4. InHand(n) => n # At(1) BY <1>3, <2>1 DEF Placed
  <2>5. (\A v, u \in workers : item[v] = n /\ item[u] = n => v = u)'
        BY <1>1, <2>1, <2>4 DEF Placed, InHand
  <2>6. CASE n = At(1) BY <1>1, <1>3, <1>6, <1>8, <2>1, <2>2, <2>3, <2>5, <2>6 DEF Placed
  <2>7. CASE n # At(1) BY <1>1, <1>4, <1>5, <1>8, <2>1, <2>2, <2>3, <2>5, <2>7 DEF Placed
  <2> QED BY <2>6, <2>7
<1>10. pool' = "alive" => ~InQueue(Terminate)' /\ ~InHand(Terminate)'
       BY <1>1, <1>3, <1>4, <1>7 DEF Accounting, InHand
<1>11. \A p \in Producers : Sent(p)' <= Len(Program[p]) BY <1>1 DEF SameSent, Accounting
<1> QED BY <1>1, <1>9, <1>10, <1>11 DEF Accounting, LogMessages, Terminate

(* process_next_msg_ moves the message in the worker's hands to the sink,  *)
(* unless it is a termination message.                                     *)
LEMMA FinishAccounts ==
  ASSUME Sound, Accounting, NEW w \in workers, FinishStep(w), UNCHANGED <<policy, workers>>
  PROVE  Accounting'
<1> DEFINE m == item[w]
<1>1. /\ m # None /\ SameQueue /\ SameSent /\ UNCHANGED <<pool, refused, dropped>>
      /\ \A v \in workers : item'[v] = IF v = w THEN None ELSE item[v]
      /\ out' = IF m = Terminate THEN out ELSE Append(out, m)
      BY DEF FinishStep, SameQueue
<1>2. m \in Messages BY <1>1 DEF Sound, Typed
<1>3. InHand(m) BY DEF InHand
<1>4. \A n : InQueue(n)' <=> InQueue(n) BY <1>1, SameQueueMeans
<1>5. out \in Seq(LogMessages) BY DEF Accounting
<1>6. /\ out' \in Seq(LogMessages)
      /\ \A n \in LogMessages : Given(n)' <=> Given(n) \/ n = m
      /\ \A i, j \in 1 .. Len(out') : out'[i] = out'[j] => i = j
  <2>1. CASE m = Terminate
    <3>1. out' = out /\ m \notin LogMessages BY <1>1, <2>1, LogMessage
    <3> QED BY <1>5, <3>1 DEF Given, Accounting
  <2>2. CASE m # Terminate
    <3>1. m \in LogMessages /\ out' = Append(out, m) BY <1>1, <1>2, <2>2 DEF Messages
    <3>2. /\ out' \in Seq(LogMessages) /\ Len(out') = Len(out) + 1
          /\ \A i \in 1 .. Len(out) + 1 : out'[i] = IF i = Len(out) + 1 THEN m ELSE out[i]
          BY <1>5, <3>1
    <3>3. ~Given(m) BY <1>3, <3>1 DEF Accounting, Placed
    <3>4. Len(out) \in Nat BY <1>5
    <3>5. \A n \in LogMessages : Given(n)' <=> Given(n) \/ n = m BY <3>2, <3>4 DEF Given
    <3>6. \A i, j \in 1 .. Len(out') : out'[i] = out'[j] => i = j
      <4>1. \A i \in 1 .. Len(out) : out[i] # m BY <3>3 DEF Given
      <4> QED BY <3>2, <3>4, <4>1 DEF Accounting
    <3> QED BY <3>2, <3>5, <3>6
  <2> QED BY <2>1, <2>2
<1>7. ASSUME NEW n \in LogMessages PROVE Placed(n)'
  <2>1. Placed(n) /\ n # None /\ n[1] \in Producers BY LogMessage DEF Accounting, Messages
  <2>2. InHand(n)' <=> InHand(n) /\ n # m
    <3>1. InHand(n)' <=> \E v \in workers \ {w} : item[v] = n BY <1>1, <2>1 DEF InHand
    <3> QED BY <2>1, <3>1 DEF InHand, Placed
  <2>3. Sent(n[1])' = Sent(n[1]) BY <1>1, <2>1 DEF SameSent
  <2>4. (\A v, u \in workers : item[v] = n /\ item[u] = n => v = u)'
        BY <1>1, <2>1 DEF Placed
  <2>5. CASE n = m BY <1>1, <1>3, <1>4, <1>6, <2>1, <2>2, <2>3, <2>4, <2>5 DEF Placed
  <2>6. CASE n # m BY <1>1, <1>4, <1>6, <2>1, <2>2, <2>3, <2>4, <2>6 DEF Placed
  <2> QED BY <2>5, <2>6
<1>8. pool' = "alive" => ~InQueue(Terminate)' /\ ~InHand(Terminate)'
  <2>1. Terminate # None BY LogMessage DEF Messages
  <2> QED BY <1>1, <1>4, <2>1 DEF Accounting, InHand
<1>9. \A p \in Producers : Sent(p)' <= Len(Program[p]) BY <1>1 DEF SameSent, Accounting
<1> QED BY <1>1, <1>6, <1>7, <1>8, <1>9 DEF Accounting, LogMessages, Terminate

(* async_logger::sink_it_ finds the pool gone: the message is reported as  *)
(* refused.                                                                *)
LEMMA RefuseAccounts ==
  ASSUME Sound, Accounting, NEW p \in Producers, RefuseStep(p), UNCHANGED <<policy, workers>>
  PROVE  Accounting'
<1>1. /\ SameQueue /\ SameHands /\ UNCHANGED <<pool, out, dropped>>
      /\ <<p, Sent(p) + 1>> \in LogMessages /\ refused' = refused \cup {<<p, Sent(p) + 1>>}
      /\ \A q \in Producers : Sent(q)' = IF q = p THEN Sent(q) + 1 ELSE Sent(q)
      BY DEF RefuseStep, SameQueue
<1>2. Sent(p) \in Nat /\ Sent(p) + 1 <= Len(Program[p]) BY <1>1, SentTyped, LogMessage DEF Sound
<1>3. \A n : (InQueue(n)' <=> InQueue(n)) /\ (InHand(n)' <=> InHand(n)) /\ (Given(n)' <=> Given(n))
      BY <1>1, SameQueueMeans, SameHandsMeans DEF Given
<1>4. ASSUME NEW n \in LogMessages PROVE Placed(n)'
  <2>1. Placed(n) BY DEF Accounting
  <2>2. n[1] \in Producers /\ n[2] \in Nat /\ n = <<n[1], n[2]>> BY LogMessage
  <2>3. (\A v, u \in workers : item[v] = n /\ item[u] = n => v = u)'
        BY <1>1, <2>1, SameHandsMeans DEF Placed
  <2>4. CASE n[1] = p
    <3>1. Sent(n[1])' = Sent(n[1]) + 1 BY <1>1, <2>2, <2>4
    <3>2. n[2] <= Sent(n[1]) \/ n = <<p, Sent(p) + 1>> \/ n[2] > Sent(n[1]) + 1
          BY <1>2, <2>2, <2>4
    <3> QED BY <1>1, <1>2, <1>3, <2>1, <2>2, <2>3, <2>4, <3>1, <3>2 DEF Placed
  <2>5. CASE n[1] # p
    <3>1. Sent(n[1])' = Sent(n[1]) BY <1>1, <2>2, <2>5
    <3> QED BY <1>1, <1>3, <2>1, <2>3, <3>1 DEF Placed
  <2> QED BY <2>4, <2>5
<1>5. \A q \in Producers : Sent(q)' <= Len(Program[q]) BY <1>1, <1>2 DEF Accounting
<1> QED BY <1>1, <1>3, <1>4, <1>5 DEF Accounting, LogMessages, Terminate

(* The other steps move no message.                                        *)
LEMMA QuietAccounts ==
  ASSUME Sound, Accounting, QuietStep, UNCHANGED <<policy, workers>>
  PROVE  Accounting'
<1>1. /\ SameQueue /\ SameHands /\ SameSent /\ UNCHANGED <<out, dropped, refused>>
      /\ pool' = "alive" => pool = "alive"
      BY DEF QuietStep, SameQueue, Ages
<1>2. \A n : (InQueue(n)' <=> InQueue(n)) /\ (InHand(n)' <=> InHand(n)) /\ (Given(n)' <=> Given(n))
      BY <1>1, SameQueueMeans, SameHandsMeans DEF Given
<1>3. ASSUME NEW n \in LogMessages PROVE Placed(n)'
  <2>1. Placed(n) /\ n[1] \in Producers BY LogMessage DEF Accounting
  <2>2. (\A v, u \in workers : item[v] = n /\ item[u] = n => v = u)'
        BY <1>1, <2>1, SameHandsMeans DEF Placed
  <2>3. Sent(n[1])' = Sent(n[1]) BY <1>1, <2>1 DEF SameSent
  <2> QED BY <1>1, <1>2, <2>1, <2>2, <2>3 DEF Placed
<1>4. \A q \in Producers : Sent(q)' <= Len(Program[q]) BY <1>1 DEF SameSent, Accounting
<1> QED BY <1>1, <1>2, <1>3, <1>4 DEF Accounting, LogMessages, Terminate

(* Every step keeps each sent message in exactly one place.                *)
LEMMA StepAccounts ==
  ASSUME Sound, Accounting, Ordered, Effect
  PROVE  Accounting'
BY PutAccounts, OverrunAccounts, TakeAccounts, FinishAccounts, RefuseAccounts, QuietAccounts
   DEF Effect

-----------------------------------------------------------------------------
(* A message that is sent is later than all its logger has sent.           *)
LEMMA SentIsLast ==
  ASSUME Sound, Accounting, NEW m \in Messages, Sends(m)
  PROVE  /\ \A i \in 1 .. Size : Before(At(i), m)
         /\ \A i \in 1 .. Len(out) : Before(out[i], m)
         /\ \A w \in workers : item[w] # None => Before(item[w], m)
<1>1. ASSUME NEW n \in Messages, InQueue(n) \/ InHand(n) \/ Given(n) PROVE Before(n, m)
  <2> SUFFICES ASSUME n[1] = m[1], n # Terminate PROVE n[2] < m[2] BY DEF Before
  <2>1. n \in LogMessages BY DEF Messages
  <2>2. n[1] \in Producers /\ n[2] \in Nat /\ n[2] <= Sent(n[1])
        BY <1>1, <2>1, LogMessage DEF Accounting, Placed
  <2>3. m \in LogMessages
    <3>1. Terminate[1] \notin Producers BY NamesAssumption DEF Terminate
    <3> QED BY <2>2, <3>1 DEF Messages
  <2>4. m[2] = Sent(m[1]) + 1 /\ m[1] \in Producers BY <2>3, SentIsNew
  <2>5. Sent(m[1]) \in Nat BY <2>4, SentTyped DEF Sound
  <2> QED BY <2>2, <2>4, <2>5
<1>2. \A i \in 1 .. Size : At(i) \in Messages /\ InQueue(At(i)) BY DEF InQueue, Sound, Queue
<1>3. \A i \in 1 .. Len(out) : out[i] \in Messages /\ Given(out[i])
      BY DEF Given, Accounting, Messages
<1>4. \A w \in workers : item[w] # None => item[w] \in Messages /\ InHand(item[w])
      BY DEF InHand, Sound, Typed
<1> QED BY <1>1, <1>2, <1>3, <1>4

(* enqueue puts the last message of its logger behind all the others.      *)
LEMMA PutKeepsOrder ==
  ASSUME Sound, Accounting, Ordered, NEW m \in Messages, PutStep(m), UNCHANGED <<policy, workers>>
  PROVE  Ordered'
<1>1. /\ Sends(m) /\ Size' = Size + 1 /\ SameHands /\ UNCHANGED out
      /\ \A i \in 1 .. Size + 1 : At(i)' = IF i = Size + 1 THEN m ELSE At(i)
      BY DEF PutStep
<1>2. Size \in Nat BY SizeSays, SlotsIs DEF Sound
<1>3. /\ \A i \in 1 .. Size : Before(At(i), m)
      /\ \A i \in 1 .. Len(out) : Before(out[i], m)
      /\ \A w \in workers : item[w] # None => Before(item[w], m)
      BY <1>1, SentIsLast
<1>4. \A j \in 1 .. Size + 1 : j # Size + 1 => j \in 1 .. Size BY <1>2
<1>5. ASSUME NEW i \in 1 .. Size', NEW j \in 1 .. Size', i < j PROVE Before(At(i)', At(j)')
  <2>1. i \in 1 .. Size /\ j \in 1 .. Size + 1 /\ i \in 1 .. Size + 1 /\ i # Size + 1 BY <1>1, <1>2, <1>5
  <2>2. CASE j = Size + 1 BY <1>1, <1>3, <2>1, <2>2
  <2>3. CASE j # Size + 1 BY <1>1, <1>4, <1>5, <2>1, <2>3 DEF Ordered
  <2> QED BY <2>2, <2>3
<1>6. ASSUME Cardinality(workers) = 1, NEW j \in 1 .. Size'
      PROVE  /\ \A i \in 1 .. Len(out) : Before(out[i], At(j)')
             /\ \A w \in workers : item'[w] # None => Before(item'[w], At(j)')
  <2>1. j \in 1 .. Size + 1 BY <1>1
  <2>2. CASE j = Size + 1 BY <1>1, <1>3, <2>1, <2>2 DEF SameHands
  <2>3. CASE j # Size + 1 BY <1>1, <1>4, <1>6, <2>1, <2>3 DEF Ordered, SameHands
  <2> QED BY <2>2, <2>3
<1>7. ASSUME Cardinality(workers) = 1
      PROVE  /\ \A i \in 1 .. Len(out), j \in 1 .. Len(out) : i < j => Before(out[i], out[j])
             /\ \A w \in workers : item'[w] # None => \A i \in 1 .. Len(out) : Before(out[i], item'[w])
      BY <1>1, <1>7 DEF Ordered, SameHands
<1> QED BY <1>1, <1>5, <1>6, <1>7 DEF Ordered

(* enqueue_nowait on a full queue drops the oldest and puts the new one    *)
(* behind the others.                                                      *)
LEMMA OverrunKeepsOrder ==
  ASSUME Sound, Accounting, Ordered, NEW m \in Messages, OverrunStep(m),
         UNCHANGED <<policy, workers>>
  PROVE  Ordered'
<1>1. /\ Sends(m) /\ Size' = Size /\ SameHands /\ UNCHANGED out
      /\ \A i \in 1 .. Size : At(i)' = IF i = Size THEN m ELSE At(i + 1)
      BY DEF OverrunStep
<1>2. Size \in Nat BY SizeSays, SlotsIs DEF Sound
<1>3. /\ \A i \in 1 .. Size : Before(At(i), m)
      /\ \A i \in 1 .. Len(out) : Before(out[i], m)
      /\ \A w \in workers : item[w] # None => Before(item[w], m)
      BY <1>1, SentIsLast
<1>4. \A i \in 1 .. Size : i # Size => i + 1 \in 1 .. Size BY <1>2
<1>5. ASSUME NEW i \in 1 .. Size', NEW j \in 1 .. Size', i < j PROVE Before(At(i)', At(j)')
  <2>1. i \in 1 .. Size /\ j \in 1 .. Size /\ i # Size /\ i + 1 \in 1 .. Size
        BY <1>1, <1>2, <1>5
  <2>2. At(i)' = At(i + 1) BY <1>1, <2>1
  <2>3. CASE j = Size BY <1>1, <1>3, <2>1, <2>2, <2>3
  <2>4. CASE j # Size
    <3>1. At(j)' = At(j + 1) /\ j + 1 \in 1 .. Size BY <1>1, <1>4, <2>1, <2>4
    <3>2. i + 1 < j + 1 BY <1>5, <2>1
    <3> QED BY <2>1, <2>2, <3>1, <3>2 DEF Ordered
  <2> QED BY <2>3, <2>4
<1>6. ASSUME Cardinality(workers) = 1, NEW j \in 1 .. Size'
      PROVE  /\ \A i \in 1 .. Len(out) : Before(out[i], At(j)')
             /\ \A w \in workers : item'[w] # None => Before(item'[w], At(j)')
  <2>1. j \in 1 .. Size BY <1>1
  <2>2. CASE j = Size BY <1>1, <1>3, <2>1, <2>2 DEF SameHands
  <2>3. CASE j # Size BY <1>1, <1>4, <1>6, <2>1, <2>3 DEF Ordered, SameHands
  <2> QED BY <2>2, <2>3
<1>7. ASSUME Cardinality(workers) = 1
      PROVE  /\ \A i \in 1 .. Len(out), j \in 1 .. Len(out) : i < j => Before(out[i], out[j])
             /\ \A w \in workers : item'[w] # None => \A i \in 1 .. Len(out) : Before(out[i], item'[w])
      BY <1>1, <1>7 DEF Ordered, SameHands
<1> QED BY <1>1, <1>5, <1>6, <1>7 DEF Ordered

(* dequeue_for takes the oldest: it precedes what stays, and follows what  *)
(* is out.                                                                 *)
LEMMA TakeKeepsOrder ==
  ASSUME Sound, Accounting, Ordered, NEW w \in workers, TakeStep(w), UNCHANGED <<policy, workers>>
  PROVE  Ordered'
<1>1. /\ item[w] = None /\ Size > 0 /\ Size' = Size - 1 /\ UNCHANGED out
      /\ \A i \in 1 .. Size - 1 : At(i)' = At(i + 1)
      /\ \A v \in workers : item'[v] = IF v = w THEN At(1) ELSE item[v]
      BY DEF TakeStep
<1>2. Size \in Nat /\ 1 \in 1 .. Size BY <1>1, SizeSays, SlotsIs DEF Sound
<1>3. \A i \in 1 .. Size - 1 : i + 1 \in 1 .. Size /\ 1 < i + 1 BY <1>2
<1>4. \A i, j \in 1 .. Size - 1 : i < j => Before(At(i + 1), At(j + 1))
  <2>1. \A i, j \in 1 .. Size - 1 : i < j => i + 1 < j + 1 BY <1>2
  <2> QED BY <1>3, <2>1 DEF Ordered
<1>5. \A i, j \in 1 .. Size' : i < j => Before(At(i)', At(j)') BY <1>1, <1>4
<1>6. ASSUME Cardinality(workers) = 1
      PROVE  /\ \A i \in 1 .. Len(out), j \in 1 .. Len(out) : i < j => Before(out[i], out[j])
             /\ \A i \in 1 .. Len(out), j \in 1 .. Size' : Before(out[i], At(j)')
             /\ \A v \in workers : item'[v] # None =>
                  /\ \A i \in 1 .. Len(out) : Before(out[i], item'[v])
                  /\ \A j \in 1 .. Size' : Before(item'[v], At(j)')
  <2>1. \A v \in workers : v = w
    <3>1. IsFiniteSet(workers) BY Names DEF Sound
    <3>2. PICK x : workers = {x} BY <1>6, <3>1, FS_Singleton
    <3> QED BY <3>2
  <2>2. \A i \in 1 .. Len(out) : \A j \in 1 .. Size : Before(out[i], At(j)) BY <1>6 DEF Ordered
  <2>3. \A j \in 1 .. Size - 1 : Before(At(1), At(j + 1)) BY <1>2, <1>3 DEF Ordered
  <2> QED BY <1>1, <1>2, <1>3, <1>6, <2>1, <2>2, <2>3 DEF Ordered
<1> QED BY <1>1, <1>5, <1>6 DEF Ordered

(* What a single worker had in its hands follows everything it has put     *)
(* out.                                                                    *)
LEMMA FinishKeepsOrder ==
  ASSUME Sound, Accounting, Ordered, NEW w \in workers, FinishStep(w),
         UNCHANGED <<policy, workers>>
  PROVE  Ordered'
<1> DEFINE m == item[w]
<1>1. /\ m # None /\ Size' = Size /\ \A i \in 1 .. Size : At(i)' = At(i)
      /\ \A v \in workers : item'[v] = IF v = w THEN None ELSE item[v]
      /\ out' = IF m = Terminate THEN out ELSE Append(out, m)
      BY DEF FinishStep, SameQueue
<1>2. m \in Messages /\ out \in Seq(LogMessages) /\ Len(out) \in Nat
      BY <1>1 DEF Sound, Typed, Accounting
<1>3. /\ Len(out') \in Nat
      /\ \A i \in 1 .. Len(out') : (i \in 1 .. Len(out) /\ out'[i] = out[i])
                                   \/ (i = Len(out) + 1 /\ Len(out') = i /\ out'[i] = m)
  <2>1. CASE m = Terminate BY <1>1, <1>2, <2>1
  <2>2. CASE m # Terminate
    <3>1. m \in LogMessages /\ out' = Append(out, m) BY <1>1, <1>2, <2>2 DEF Messages
    <3>2. Len(out') = Len(out) + 1
          /\ \A i \in 1 .. Len(out) + 1 : out'[i] = IF i = Len(out) + 1 THEN m ELSE out[i]
          BY <1>2, <3>1
    <3> QED BY <1>2, <3>2
  <2> QED BY <2>1, <2>2
<1>4. \A i, j \in 1 .. Size' : i < j => Before(At(i)', At(j)') BY <1>1 DEF Ordered
<1>5. ASSUME Cardinality(workers) = 1
      PROVE  /\ \A i \in 1 .. Len(out'), j \in 1 .. Len(out') : i < j => Before(out'[i], out'[j])
             /\ \A i \in 1 .. Len(out'), j \in 1 .. Size' : Before(out'[i], At(j)')
             /\ \A v \in workers : item'[v] # None =>
                  /\ \A i \in 1 .. Len(out') : Before(out'[i], item'[v])
                  /\ \A j \in 1 .. Size' : Before(item'[v], At(j)')
  <2>1. \A v \in workers : v = w
    <3>1. IsFiniteSet(workers) BY Names DEF Sound
    <3>2. PICK x : workers = {x} BY <1>5, <3>1, FS_Singleton
    <3> QED BY <3>2
  <2>2. \A v \in workers : item'[v] = None BY <1>1, <2>1
  <2>3. \A i \in 1 .. Len(out) : Before(out[i], m) BY <1>1, <1>5 DEF Ordered
  <2>4. ASSUME NEW i \in 1 .. Len(out'), NEW j \in 1 .. Len(out'), i < j
        PROVE  Before(out'[i], out'[j])
    <3>1. i \in 1 .. Len(out) /\ out'[i] = out[i] BY <1>2, <1>3, <2>4
    <3>2. CASE j \in 1 .. Len(out) /\ out'[j] = out[j] BY <1>5, <2>4, <3>1, <3>2 DEF Ordered
    <3>3. CASE out'[j] = m BY <2>3, <3>1, <3>3
    <3> QED BY <1>3, <3>2, <3>3
  <2>5. ASSUME NEW i \in 1 .. Len(out'), NEW j \in 1 .. Size' PROVE Before(out'[i], At(j)')
    <3>1. At(j)' = At(j) /\ j \in 1 .. Size BY <1>1
    <3>2. Before(m, At(j)) BY <1>1, <1>5, <3>1 DEF Ordered
    <3>3. i \in 1 .. Len(out) => Before(out[i], At(j)) BY <1>5, <3>1 DEF Ordered
    <3> QED BY <1>3, <3>1, <3>2, <3>3
  <2> QED BY <2>2, <2>4, <2>5
<1> QED BY <1>1, <1>4, <1>5 DEF Ordered

(* Every step keeps the messages of a logger in their order, in the queue  *)
(* and, with one worker, on their way to the sink.                         *)
LEMMA StepOrders ==
  ASSUME Sound, Accounting, Ordered, Effect
  PROVE  Ordered'
<1>1. ASSUME SameQueue, SameHands, UNCHANGED <<out, workers>> PROVE Ordered'
      BY <1>1 DEF Ordered, SameQueue, SameHands
<1> QED BY <1>1, PutKeepsOrder, OverrunKeepsOrder, TakeKeepsOrder, FinishKeepsOrder
        DEF Effect, RefuseStep, QuietStep


-----------------------------------------------------------------------------
(* The workers, and those of them that have a termination message, are     *)
(* finitely many.                                                          *)
LEMMA Counts ==
  ASSUME Typed
  PROVE  /\ IsFiniteSet(workers) /\ Cardinality(workers) \in Nat
         /\ Taken \subseteq workers /\ IsFiniteSet(Taken) /\ Cardinality(Taken) \in Nat
         /\ ToPost \in Int
<1>1. IsFiniteSet(workers) BY Names
<1>2. Taken \subseteq workers BY DEF Taken
<1>3. IsFiniteSet(Taken) BY <1>1, <1>2, FS_Subset
<1> QED BY <1>1, <1>2, <1>3, FS_CardinalityType DEF ToPost, Typed

(* A termination message is posted: it is the newest in the queue.         *)
LEMMA PutDrains ==
  ASSUME Sound, Accounting, Draining, pool = "dying", NEW m \in Messages, PutStep(m),
         UNCHANGED <<policy, workers>>
  PROVE  Draining'
<1>1. /\ Sends(m) /\ Size' = Size + 1 /\ SameHands /\ UNCHANGED pool
      /\ \A i \in 1 .. Size + 1 : At(i)' = IF i = Size + 1 THEN m ELSE At(i)
      BY DEF PutStep
<1>2. m = Terminate BY <1>1 DEF Sends
<1>3. PICK t \in Posters : pc[t] = "post" /\ Moves(t, "notify") BY <1>1 DEF Sends
<1>4. left' = left BY <1>1 DEF Sends
<1>5. Size \in Nat BY SizeSays, SlotsIs DEF Sound
<1>6. /\ Cardinality(workers) \in Nat /\ Cardinality(Taken) \in Nat /\ ToPost \in Int
      /\ t \notin workers
      BY Counts, Names DEF Sound
<1>7. Taken' = Taken
  <2>1. \A w \in workers : pc'[w] = pc[w] /\ item'[w] = item[w]
        BY <1>1, <1>3, <1>6 DEF Moves, SameHands
  <2> QED BY <2>1 DEF Taken
<1>8. ToPost' = ToPost - 1
  <2>1. PICK d \in Posters : \A u \in Posters \ {d} : pc[u] \in {"idle", "done"}
        BY DEF Sound, Lifetime, Dying
  <2>2. \A u \in Posters : pc[u] # "notify" BY <1>3, <2>1
  <2>3. pc'[t] = "notify" BY <1>3 DEF Moves
  <2> QED BY <1>4, <2>2, <2>3 DEF ToPost
<1>9. Rest' = Rest + 1 BY <1>6, <1>7, <1>8 DEF Rest
<1>10. /\ Rest \in 0 .. Size /\ \A i \in 1 .. Size : (At(i) = Terminate) <=> (i > Size - Rest)
       /\ Taken # {} => Rest = Size
       BY DEF Draining
<1>11. ASSUME NEW i \in 1 .. Size' PROVE (At(i)' = Terminate) <=> (i > Size' - Rest')
  <2>1. i \in 1 .. Size + 1 /\ Size' - Rest' = Size - Rest BY <1>1, <1>5, <1>9, <1>10
  <2>2. CASE i = Size + 1 BY <1>1, <1>2, <1>5, <1>10, <2>1, <2>2
  <2>3. CASE i # Size + 1
    <3>1. i \in 1 .. Size BY <1>5, <2>1, <2>3
    <3> QED BY <1>1, <1>10, <2>1, <2>3, <3>1
  <2> QED BY <2>2, <2>3
<1> QED BY <1>1, <1>5, <1>7, <1>9, <1>10, <1>11 DEF Draining

(* Once a termination message is taken nothing else is left.               *)
LEMMA TakeDrains ==
  ASSUME Sound, Draining, pool = "dying", NEW w \in workers, TakeStep(w),
         UNCHANGED <<policy, workers>>
  PROVE  Draining'
<1>1. /\ item[w] = None /\ Size > 0 /\ Size' = Size - 1 /\ Moves(w, "notify") /\ pc[w] = "look"
      /\ \A i \in 1 .. Size - 1 : At(i)' = At(i + 1)
      /\ \A v \in workers : item'[v] = IF v = w THEN At(1) ELSE item[v]
      /\ UNCHANGED <<pool, left>>
      BY DEF TakeStep
<1>2. Size \in Nat /\ 1 \in 1 .. Size BY <1>1, SizeSays, SlotsIs DEF Sound
<1>3. /\ IsFiniteSet(Taken) /\ Cardinality(Taken) \in Nat /\ Cardinality(workers) \in Nat
      /\ ToPost \in Int /\ w \notin Posters
      BY Counts, Names DEF Sound
<1>4. ToPost' = ToPost
  <2>1. \A u \in Posters : pc'[u] = pc[u] BY <1>1, <1>3 DEF Moves
  <2> QED BY <1>1, <2>1 DEF ToPost
<1>5. /\ Rest \in 0 .. Size /\ \A i \in 1 .. Size : (At(i) = Terminate) <=> (i > Size - Rest)
      /\ Taken # {} => Rest = Size
      BY DEF Draining
<1>6. \A v \in workers : pc'[v] = IF v = w THEN "notify" ELSE pc[v] BY <1>1 DEF Moves
<1>7. w \notin Taken
  <2>1. Terminate # None BY LogMessage DEF Messages
  <2> QED BY <1>1, <2>1 DEF Taken
<1>8. \A i \in 1 .. Size - 1 : i + 1 \in 1 .. Size BY <1>2
<1>9. CASE At(1) = Terminate
  <2>1. Taken' = Taken \cup {w} BY <1>1, <1>6, <1>9 DEF Taken
  <2>2. Cardinality(Taken') = Cardinality(Taken) + 1 BY <1>3, <1>7, <2>1, FS_AddElement
  <2>3. Rest' = Rest - 1 BY <1>3, <1>4, <2>2 DEF Rest
  <2>4. Rest = Size BY <1>2, <1>5, <1>9
  <2>5. ASSUME NEW i \in 1 .. Size' PROVE (At(i)' = Terminate) <=> (i > Size' - Rest')
    <3>1. i \in 1 .. Size - 1 /\ At(i)' = At(i + 1) /\ i + 1 \in 1 .. Size BY <1>1, <1>8
    <3>2. At(i + 1) = Terminate BY <1>2, <1>5, <2>4, <3>1
    <3> QED BY <1>1, <1>2, <2>3, <2>4, <3>1, <3>2
  <2> QED BY <1>1, <1>2, <2>3, <2>4, <2>5 DEF Draining
<1>10. CASE At(1) # Terminate
  <2>1. Taken' = Taken BY <1>1, <1>6, <1>7, <1>10 DEF Taken
  <2>2. Rest' = Rest BY <1>3, <1>4, <2>1 DEF Rest
  <2>3. Rest < Size BY <1>2, <1>5, <1>10
  <2>4. ASSUME NEW i \in 1 .. Size' PROVE (At(i)' = Terminate) <=> (i > Size' - Rest')
    <3>1. i \in 1 .. Size - 1 /\ At(i)' = At(i + 1) /\ i + 1 \in 1 .. Size BY <1>1, <1>8
    <3>2. (At(i + 1) = Terminate) <=> (i + 1 > Size - Rest) BY <1>5, <3>1
    <3> QED BY <1>1, <1>2, <1>5, <2>2, <3>1, <3>2
  <2> QED BY <1>1, <1>2, <1>5, <2>1, <2>2, <2>3, <2>4 DEF Draining
<1> QED BY <1>9, <1>10

(* Steps that leave the queue and the count of workers that took their     *)
(* termination message alone.                                              *)
LEMMA RestDrains ==
  ASSUME Draining, pool = "dying", UNCHANGED <<pool, workers>>, SameQueue,
         Taken' = Taken, ToPost' = ToPost
  PROVE  Draining'
<1>1. Size' = Size /\ \A i \in 1 .. Size : At(i)' = At(i) BY DEF SameQueue
<1>2. Rest' = Rest BY DEF Rest
<1> QED BY <1>1, <1>2 DEF Draining

(* Every step keeps the account of the termination messages: as many are   *)
(* in the queue or still to be posted as there are workers without one,    *)
(* behind everything else.                                                 *)
LEMMA StepDrains ==
  ASSUME Sound, Accounting, Draining, Sound', Accounting', Effect
  PROVE  Draining'
<1> USE DEF Sound
<1>1. UNCHANGED <<policy, workers>> BY DEF Effect
<1>2. \A w \in workers : w \notin Posters BY Names
<1>3. Terminate \notin LogMessages /\ Terminate # None BY LogMessage DEF Messages
<1>4. ASSUME NEW m \in Messages, PutStep(m) \/ OverrunStep(m) PROVE Draining'
  <2>1. Sends(m) /\ UNCHANGED pool /\ left' = left BY <1>4 DEF PutStep, OverrunStep, Sends
  <2>2. CASE pool = "alive"
    <3>1. PICK t \in Posters : Moves(t, "notify") BY <2>1 DEF Sends
    <3>2. \A w \in workers : pc'[w] = pc[w] BY <1>2, <3>1 DEF Moves
    <3>3. SameHands BY <1>4 DEF PutStep, OverrunStep
    <3>4. Taken' = Taken BY <1>1, <3>2, <3>3 DEF Taken, SameHands
    <3> QED BY <2>1, <2>2, <3>4 DEF Draining
  <2>3. CASE pool = "dying"
    <3>1. m = Terminate BY <2>1, <2>3 DEF Sends
    <3>2. PutStep(m) BY <1>4, <3>1 DEF OverrunStep, MayOverrun
    <3> QED BY <1>1, <2>3, <3>2, PutDrains
  <2> QED BY <2>1, <2>2, <2>3 DEF Sends
<1>5. ASSUME NEW w \in workers, TakeStep(w) PROVE Draining'
  <2>1. /\ UNCHANGED <<pool, left>> /\ Moves(w, "notify") /\ Size > 0
        BY <1>5 DEF TakeStep
  <2>2. CASE pool = "alive"
    <3>1. \A v \in workers : pc[v] # "exited" BY <2>2 DEF Draining, Taken
    <3>2. \A v \in workers : pc'[v] # "exited" BY <2>1, <3>1 DEF Moves
    <3>3. \A v \in workers : item'[v] # Terminate BY <1>1, <2>1, <2>2 DEF Accounting, InHand
    <3>4. Taken' = {} BY <1>1, <3>2, <3>3 DEF Taken
    <3> QED BY <2>1, <2>2, <3>4 DEF Draining
  <2>3. CASE pool = "dying" BY <1>1, <1>5, <2>3, TakeDrains
  <2>4. pool # "gone" BY <2>1 DEF Draining
  <2> QED BY <2>2, <2>3, <2>4 DEF Typed
<1>6. ASSUME NEW w \in workers, FinishStep(w) PROVE Draining'
  <2>1. /\ UNCHANGED <<pool, left>> /\ item[w] # None /\ SameQueue /\ pc[w] = "process"
        /\ Moves(w, IF item[w] = Terminate THEN "exited" ELSE "look")
        /\ \A v \in workers : item'[v] = IF v = w THEN None ELSE item[v]
        BY <1>6 DEF FinishStep
  <2>2. Taken' = Taken BY <1>1, <1>3, <2>1 DEF Taken, Moves
  <2>3. ToPost' = ToPost
    <3>1. \A u \in Posters : pc'[u] = pc[u] BY <1>2, <2>1 DEF Moves
    <3> QED BY <2>1, <3>1 DEF ToPost
  <2>4. CASE pool = "dying" BY <1>1, <2>1, <2>2, <2>3, <2>4, RestDrains
  <2>5. CASE pool # "dying" BY <2>1, <2>2, <2>5 DEF Draining, SameQueue
  <2> QED BY <2>4, <2>5
<1>7. ASSUME NEW p \in Producers, RefuseStep(p) PROVE Draining'
  <2>1. SameQueue /\ SameHands /\ UNCHANGED <<pool, left, pc>> BY <1>7 DEF RefuseStep
  <2>2. Taken' = Taken BY <1>1, <2>1 DEF Taken, SameHands
  <2>3. ToPost' = ToPost BY <2>1 DEF ToPost
  <2>4. CASE pool = "dying" BY <1>1, <2>1, <2>2, <2>3, <2>4, RestDrains
  <2>5. CASE pool # "dying" BY <2>1, <2>2, <2>5 DEF Draining, SameQueue
  <2> QED BY <2>4, <2>5
<1>8. ASSUME QuietStep PROVE Draining'
  <2>1. /\ SameQueue /\ SameHands /\ Ages
        /\ \A w \in workers : pc'[w] = "exited" <=> pc[w] = "exited"
        BY <1>8 DEF QuietStep
  <2>2. Taken' = Taken BY <1>1, <2>1 DEF Taken, SameHands
  <2>3. CASE pool = "alive" /\ pool' = "alive" /\ left' = left BY <2>2, <2>3 DEF Draining
  <2>4. CASE pool = "alive" /\ pool' = "dying" /\ ToPost' = Cardinality(workers)
    <3>1. Taken' = {} BY <2>2, <2>4 DEF Draining
    <3>2. Rest' = 0
      <4>1. Cardinality(workers) \in Nat BY Counts
      <4> QED BY <1>1, <2>4, <3>1, <4>1, FS_EmptySet DEF Rest
    <3>3. Size' = Size /\ Size \in Nat BY <2>1, SizeSays, SlotsIs DEF SameQueue
    <3>4. \A i \in 1 .. Size : At(i)' # Terminate
          BY <2>1, <2>4 DEF SameQueue, Accounting, InQueue
    <3> QED BY <2>4, <3>1, <3>2, <3>3, <3>4 DEF Draining
  <2>5. CASE pool = "dying" /\ pool' = "dying" /\ ToPost' = ToPost
        BY <1>1, <2>1, <2>2, <2>5, RestDrains
  <2>6. CASE /\ pool = "dying" /\ pool' = "gone" /\ ToPost = 0
             /\ \A w \in workers : pc[w] = "exited"
    <3>1. Taken = workers /\ Taken # {} BY <2>6, Names DEF Taken
    <3>2. Rest = 0
      <4>1. Cardinality(workers) \in Nat BY Counts
      <4> QED BY <2>6, <3>1, <4>1 DEF Rest
    <3>3. Size' = 0 BY <2>1, <2>6, <3>1, <3>2 DEF Draining, SameQueue
    <3> QED BY <2>6, <3>3 DEF Draining
  <2>7. CASE pool = "gone" /\ pool' = "gone" BY <2>1, <2>7 DEF Draining, SameQueue
  <2> QED BY <2>1, <2>3, <2>4, <2>5, <2>6, <2>7 DEF Ages
<1> QED BY <1>4, <1>5, <1>6, <1>7, <1>8 DEF Effect

-----------------------------------------------------------------------------
(* The invariant holds of the pool that the constructor leaves,            *)
LEMMA InitIInv == Init => IInv
<1> SUFFICES ASSUME Init PROVE IInv OBVIOUS
<1>1. Sound BY InitSound
<1>2. Size = 0
  <2>1. empty BY DEF Init, empty
  <2> QED BY <1>1, <2>1, SizeSays DEF Sound
<1>3. \A w \in workers : item[w] = None /\ pc[w] = "look"
  <2>1. workers \cap Posters = {} BY <1>1, Names DEF Sound
  <2> QED BY <2>1 DEF Init
<1>4. Len(out) = 0 /\ out \in Seq(LogMessages) /\ dropped = {} BY DEF Init
<1>5. \A p \in Producers : Sent(p) = 0
  <2>1. \A p \in Producers : p \notin holders BY NamesAssumption DEF Init
  <2> QED BY <2>1 DEF Sent, Init
<1>6. \A m \in Messages : ~InQueue(m) /\ ~InHand(m) /\ ~Given(m)
      BY <1>2, <1>3, <1>4, LogMessage DEF InQueue, InHand, Given
<1>7. Accounting
  <2>1. \A m \in LogMessages : Placed(m)
        BY <1>3, <1>4, <1>5, <1>6, LogMessage DEF Placed, Messages
  <2> QED BY <1>4, <1>5, <1>6, <2>1, LogMessage DEF Accounting, Messages
<1>8. Ordered BY <1>2, <1>3, <1>4 DEF Ordered
<1>9. Draining
  <2>1. Taken = {} BY <1>3, LogMessage DEF Taken, Messages
  <2> QED BY <2>1 DEF Draining, Init
<1> QED BY <1>1, <1>7, <1>8, <1>9 DEF IInv

(* and every step keeps it.                                                *)
LEMMA NextIInv == IInv /\ [Next]_vars => IInv'
<1> SUFFICES ASSUME IInv, [Next]_vars PROVE IInv' OBVIOUS
<1>1. Sound' /\ Effect BY StepEffect DEF IInv
<1>2. Accounting' BY <1>1, StepAccounts DEF IInv
<1>3. Ordered' BY <1>1, StepOrders DEF IInv
<1>4. Draining' BY <1>1, <1>2, StepDrains DEF IInv
<1> QED BY <1>1, <1>2, <1>3, <1>4 DEF IInv

(* A posted message is a log message that was sent.                        *)
LEMMA PostedIsPlaced ==
  ASSUME Sound, Accounting, NEW p \in Producers, NEW m \in Posted(p)
  PROVE  m \in LogMessages /\ (InQueue(m) \/ InHand(m) \/ Given(m) \/ m \in dropped)
<1>1. PICK n \in 1 .. call[p] : m = <<p, n>> BY DEF Posted
<1>2. m \notin refused BY DEF Posted
<1>3. call[p] \in Nat /\ call[p] <= Sent(p) /\ Sent(p) \in Nat /\ Sent(p) <= Len(Program[p])
      BY SentTyped DEF Sound, Typed, Sent, Accounting
<1>4. m \in LogMessages
  <2>1. n \in 1 .. Len(Program[p]) BY <1>3, LogMessage
  <2> QED BY <1>1, <2>1, LogMessage
<1>5. m[2] <= Sent(m[1]) BY <1>1, <1>3
<1> QED BY <1>2, <1>4, <1>5 DEF Accounting, Placed

(* The sets in which the properties speak of messages are the places of    *)
(* the accounting.                                                         *)
LEMMA SetsOf ==
  ASSUME Sound, Accounting
  PROVE  /\ \A m : m \in ToSet(out) <=> Given(m)
         /\ \A m : m \in ToSet(Contents) <=> InQueue(m)
         /\ \A m : m \in {item[w] : w \in workers} <=> InHand(m)
<1>1. out \in Seq(LogMessages) BY DEF Accounting
<1>2. \A m : m \in ToSet(out) <=> Given(m) BY <1>1 DEF ToSet, Given
<1>3. /\ DOMAIN Contents = 1 .. Size /\ \A i \in 1 .. Size : Contents[i] = At(i)
      BY DEF Contents, At
<1>4. \A m : m \in ToSet(Contents) <=> InQueue(m) BY <1>3 DEF ToSet, InQueue
<1> QED BY <1>2, <1>4 DEF InHand

(* Every message a logger has posted is in one place and only there, and   *)
(* nothing is overrun but by a logger that may: the queue loses nothing in *)
(* silence, however loggers, workers and the destructor interleave.        *)
THEOREM NothingIsLostInSilence == Spec => []NoSilentLoss
<1>1. IInv => NoSilentLoss
  <2> SUFFICES ASSUME IInv PROVE NoSilentLoss OBVIOUS
  <2> USE DEF IInv
  <2> DEFINE inHand == {item[w] : w \in workers} \ {None}
             given == ToSet(out)
             queued == ToSet(Contents)
  <2>1. out \in Seq(LogMessages) /\ dropped \subseteq LogMessages BY DEF Accounting
  <2>2. \A p \in Producers : Posted(p) \subseteq given \cup queued \cup inHand \cup dropped
    <3>1. ASSUME NEW p \in Producers, NEW m \in Posted(p)
          PROVE  m \in given \cup queued \cup inHand \cup dropped
      <4>1. m # None BY PostedIsPlaced, LogMessage DEF Messages
      <4> QED BY <4>1, PostedIsPlaced, SetsOf
    <3> QED BY <3>1
  <2>3. given \cap (queued \cup inHand \cup dropped) = {}
    <3>1. ASSUME NEW m, m \in given, m \in queued \cup inHand \cup dropped PROVE FALSE
      <4>1. Given(m) /\ m \in LogMessages BY <2>1, <3>1, SetsOf DEF Given
      <4> QED BY <3>1, <4>1, SetsOf DEF Accounting, Placed
    <3> QED BY <3>1
  <2>4. Cardinality(given) = Len(out)
    <3>1. Len(out) \in Nat /\ out \in [1 .. Len(out) -> LogMessages] BY <2>1
    <3>2. given = {out[i] : i \in 1 .. Len(out)} BY <3>1 DEF ToSet
    <3>3. out \in Bijection(1 .. Len(out), given)
      <4>1. out \in [1 .. Len(out) -> given] BY <3>1, <3>2
      <4>2. \A i, j \in 1 .. Len(out) : out[i] = out[j] => i = j BY DEF Accounting
      <4>3. \A m \in given : \E i \in 1 .. Len(out) : out[i] = m BY <3>2
      <4> QED BY <4>1, <4>2, <4>3 DEF Bijection, Injection, Surjection, IsInjective
    <3>4. ExistsBijection(1 .. Len(out), given) BY <3>3 DEF ExistsBijection
    <3>5. IsFiniteSet(1 .. Len(out)) /\ Cardinality(1 .. Len(out)) = Len(out)
          BY <3>1, FS_Interval
    <3> QED BY <3>4, <3>5, FS_Bijection
  <2>5. Terminate \notin dropped BY <2>1, LogMessage
  <2>6. dropped # {} => \E p \in Producers : policy[p] = "overrun_oldest" BY DEF Accounting
  <2> QED BY <2>2, <2>3, <2>4, <2>5, <2>6 DEF NoSilentLoss
<1> QED BY <1>1, InitIInv, NextIInv, PTL DEF Spec

(* When the destructor of the pool returns, the queue is empty and every   *)
(* message that was posted and not overrun has reached the sink, whichever *)
(* workers took the termination messages.                                  *)
THEOREM DestructorDrains == Spec => []DrainedAtDestruction
<1>1. IInv => DrainedAtDestruction
  <2> SUFFICES ASSUME IInv, pool = "gone"
               PROVE  /\ Contents = <<>>
                      /\ \A p \in Producers : Posted(p) \subseteq ToSet(out) \cup dropped
      BY DEF DrainedAtDestruction
  <2> USE DEF IInv
  <2>1. Size = 0 BY DEF Draining
  <2>2. Contents = <<>> BY <2>1, ContentsIs DEF Sound
  <2>3. \A w \in workers : item[w] = None BY DEF Sound, Lifetime, Gone, Items
  <2>4. \A m \in LogMessages : ~InQueue(m) /\ ~InHand(m)
        BY <2>1, <2>3, LogMessage DEF InQueue, InHand, Messages
  <2>5. ASSUME NEW p \in Producers, NEW m \in Posted(p) PROVE m \in ToSet(out) \cup dropped
        BY <2>4, PostedIsPlaced, SetsOf
  <2> QED BY <2>2, <2>5
<1> QED BY <1>1, InitIInv, NextIInv, PTL DEF Spec

(* With one worker, each logger's messages and flushes reach the sink in   *)
(* the order it made the calls.                                            *)
THEOREM OneWorkerKeepsOrder == Spec => []InOrder
<1>1. IInv => InOrder
  <2> SUFFICES ASSUME IInv, Cardinality(workers) = 1,
                      NEW i \in 1 .. Len(out), NEW j \in 1 .. Len(out), i < j,
                      out[i][1] = out[j][1]
               PROVE  out[i][2] < out[j][2]
      BY DEF InOrder
  <2>1. out[i] # Terminate BY LogMessage DEF IInv, Accounting
  <2>2. Before(out[i], out[j]) BY DEF IInv, Ordered
  <2> QED BY <2>1, <2>2 DEF Before
<1> QED BY <1>1, InitIInv, NextIInv, PTL DEF Spec
=============================================================================
