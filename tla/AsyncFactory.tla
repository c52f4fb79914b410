---------------------------- MODULE AsyncFactory ----------------------------
(***************************************************************************)
(* async_factory_impl::create (abel/log/async.h) called by several threads *)
(* before the global thread pool exists.  A pool is its number, in order   *)
(* of creation; it lives while the registry or a local variable `tp` has a *)
(* shared_ptr to it.  A logger only has a weak_ptr.                        *)
(***************************************************************************)
EXTENDS Naturals

CONSTANTS
  Threads,  \* the threads that create a logger
  Name      \* the name of each thread's logger

VARIABLES
  tp_,      \* registry::tp_, 0 when null
  loggers_, \* registry::loggers_: the pool of the logger registered by a name, 0 if none
  made,     \* pools created so far
  tp,       \* the local variable of create, 0 when null or out of scope
  pc

vars == <<tp_, loggers_, made, tp, pc>>

Init ==
  /\ tp_ = 0 /\ made = 0
  /\ loggers_ = [n \in {Name[t] : t \in Threads} |-> 0]
  /\ tp = [t \in Threads |-> 0]
  /\ pc = [t \in Threads |-> "get_tp"]

Goto(t, label) == pc' = [pc EXCEPT ![t] = label]

(* The lock_guard before this is an unnamed temporary: it has let go of    *)
(* tp_mutex_ again when get_tp is called.                                  *)
get_tp(t) ==
  /\ pc[t] = "get_tp"
  /\ tp' = [tp EXCEPT ![t] = tp_]
  /\ Goto(t, IF tp_ = 0 THEN "make" ELSE "register")
  /\ UNCHANGED <<tp_, loggers_, made>>

(* make_shared<thread_pool>, outside of any lock.                          *)
MakePool(t) ==
  /\ pc[t] = "make"
  /\ made' = made + 1
  /\ tp' = [tp EXCEPT ![t] = made']
  /\ Goto(t, "set_tp")
  /\ UNCHANGED <<tp_, loggers_>>

(* set_tp replaces whatever pool the registry had.                         *)
set_tp(t) ==
  /\ pc[t] = "set_tp"
  /\ tp_' = tp[t]
  /\ Goto(t, "register")
  /\ UNCHANGED <<loggers_, made, tp>>

(* register_and_init, and the return or the exception that ends create.    *)
register_and_init(t) ==
  /\ pc[t] = "register"
  /\ IF loggers_[Name[t]] = 0
     THEN loggers_' = [loggers_ EXCEPT ![Name[t]] = tp[t]] /\ Goto(t, "created")
     ELSE UNCHANGED loggers_ /\ Goto(t, "threw")
  /\ tp' = [tp EXCEPT ![t] = 0]
  /\ UNCHANGED <<tp_, made>>

Done == (\A t \in Threads : pc[t] \in {"created", "threw"}) /\ UNCHANGED vars

Next == Done \/ \E t \in Threads : get_tp(t) \/ MakePool(t) \/ set_tp(t) \/ register_and_init(t)

Spec == Init /\ [][Next]_vars

Alive(k) == k = tp_ \/ \E t \in Threads : tp[t] = k

(* async.h: "All loggers created here share same global thread pool."      *)
(* The registry keeps every registered logger's pool alive:                *)
(* otherwise each of its messages is refused with "thread pool doens't     *)
(* exist anymore".                                                         *)
LoggersShareLivePool ==
  \A n \in DOMAIN loggers_ : loggers_[n] # 0 => Alive(loggers_[n])
=============================================================================
