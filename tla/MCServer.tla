-------------------------------- MODULE MCServer --------------------------------
(* What the program does on a live server, for TLC: a behaviour is one of the *)
(* signal statements or one of the blocking query, and the other stays where  *)
(* it is.                                                                     *)
EXTENDS RuntimeSignal, BlockingChain

VARIABLE part

SignalsIdle ==
  /\ backend = [pid \in Pids |-> Nobody]
  /\ born = 0
  /\ pending = {}
  /\ command = [i \in Invocations |-> CHOOSE c \in SignalCommand : TRUE]
  /\ at = [i \in Invocations |-> "ended"]
  /\ own = [i \in Invocations |-> Nobody]
  /\ seen = own /\ row = own /\ hit = own
  /\ ending = [i \in Invocations |-> "none"]

ChainIdle ==
  /\ waits = [s \in Sessions |-> {}]
  /\ changes = 0
  /\ roots = {} /\ todo = {} /\ chain = {} /\ working = {}

ServerInit ==
  \/ part = "signals" /\ Init /\ ChainIdle
  \/ part = "blocking" /\ ChainInit /\ SignalsIdle

ServerNext ==
  \/ part = "signals" /\ Next /\ UNCHANGED <<part, chainVars>>
  \/ part = "blocking" /\ ChainNext /\ UNCHANGED <<part, vars>>

ServerSpec ==
  /\ ServerInit
  /\ [][ServerNext]_<<part, vars, chainVars>>
  /\ Fairness
  /\ WF_chainVars(Unfold)
===============================================================================
