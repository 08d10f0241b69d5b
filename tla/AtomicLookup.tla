---------------------------- MODULE AtomicLookup ----------------------------
(***************************************************************************)
(* What libmaxminddb promises of a lookup: a call is answered in one step, *)
(* from the tree and its arguments alone.  There is no cache here and      *)
(* nothing a thread does can be seen by another.                           *)
(*                                                                         *)
(* What the code does not keep of that promise is said by `exposed`: while *)
(* other threads may be filling the cache, the call of an IPv4 address in  *)
(* an IPv6 file may be answered with another entry.                        *)
(***************************************************************************)
EXTENDS SearchTree

CONSTANTS Threads, Trees, Versions, Requests

VARIABLES
  tree,       \* the database
  ipVersion,  \* its ip_version
  phase,      \* "idle", "busy" or "done", for each thread
  req,        \* the arguments of the call
  reply,      \* the entry the call returned
  exposed     \* a thread's call may be answered wrongly

avars == <<tree, ipVersion, phase, req, reply, exposed>>

AnyEntry == [mmdbError : {"SUCCESS", "CORRUPT"},
             found : BOOLEAN, offset : 0 .. DataSize]

NoRequest == [api |-> "sockaddr", family |-> 0, address |-> <<>>]

AInit ==
  /\ tree \in Trees
  /\ ipVersion \in Versions
  /\ phase = [t \in Threads |-> "idle"]
  /\ req = [t \in Threads |-> NoRequest]
  /\ reply = [t \in Threads |-> Entry(NoAnswer)]
  /\ exposed = [t \in Threads |-> FALSE]

ACall(t, r) ==
  /\ phase[t] = "idle"
  /\ phase' = [phase EXCEPT ![t] = "busy"]
  /\ req' = [req EXCEPT ![t] = r]
  /\ \E e \in BOOLEAN :
       /\ e => IsMapped(ipVersion, r) /\ \E u \in Threads : u # t
       /\ exposed' = [exposed EXCEPT ![t] = e]
  /\ UNCHANGED <<tree, ipVersion, reply>>

AAnswer(t) ==
  /\ phase[t] = "busy"
  /\ phase' = [phase EXCEPT ![t] = "done"]
  /\ \E e \in AnyEntry \cup {ExpectedEntry(tree, ipVersion, req[t])} :
       /\ ~ exposed[t] => e = ExpectedEntry(tree, ipVersion, req[t])
       /\ reply' = [reply EXCEPT ![t] = e]
  /\ UNCHANGED <<tree, ipVersion, req, exposed>>

AReturn(t) ==
  /\ phase[t] = "done"
  /\ phase' = [phase EXCEPT ![t] = "idle"]
  /\ req' = [req EXCEPT ![t] = NoRequest]
  /\ reply' = [reply EXCEPT ![t] = Entry(NoAnswer)]
  /\ exposed' = [exposed EXCEPT ![t] = FALSE]
  /\ UNCHANGED <<tree, ipVersion>>

ANext ==
  \E t \in Threads :
    (\E r \in Requests : ACall(t, r)) \/ AAnswer(t) \/ AReturn(t)

ASafety == AInit /\ [][ANext]_avars

\* A call that was made is answered.
ASpec == ASafety /\ \A t \in Threads : WF_avars(AAnswer(t))
=============================================================================
