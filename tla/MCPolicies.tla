------------------------------ MODULE MCPolicies ------------------------------
(***************************************************************************)
(* Small instances of the four policies of this repository for TLC.  A     *)
(* behaviour drives one of them, chosen at the start; the others rest.     *)
(* The LFU is this module's own state, the others are instances.           *)
(***************************************************************************)
EXTENDS LFU, TTLParams

CONSTANT
  Drives        \* the policies the run drives

VARIABLES
  driven,                       \* the policy this behaviour drives
  rnd, rndSize, rndResult,      \* RandomCache
  lru, lruSize, ttl, now,       \* TTLCache
  twoQ, twoQSize, twoQResult    \* AdaptedCache around 2Q

R == INSTANCE RandomCache WITH cache <- rnd, size <- rndSize, result <- rndResult
T == INSTANCE TTLCache WITH size <- lruSize
A == INSTANCE AdaptedCache WITH cache <- twoQ, size <- twoQSize, result <- twoQResult

rndVars  == <<rnd, rndSize, rndResult>>
ttlVars  == <<lru, lruSize, ttl, now>>
twoQVars == <<twoQ, twoQSize, twoQResult>>
allVars  == <<driven, vars, rndVars, ttlVars, twoQVars>>

AllInit == driven \in Drives /\ Init /\ R!Init /\ T!Init /\ A!Init

AllNext ==
  /\ UNCHANGED driven
  /\ \/ driven = "lfu"    /\ Next   /\ UNCHANGED <<rndVars, ttlVars, twoQVars>>
     \/ driven = "random" /\ R!Next /\ UNCHANGED <<vars, ttlVars, twoQVars>>
     \/ driven = "ttl"    /\ T!Next /\ UNCHANGED <<vars, rndVars, twoQVars>>
     \/ driven = "2q"     /\ A!Next /\ UNCHANGED <<vars, rndVars, ttlVars>>

AllSpec == AllInit /\ [][AllNext]_allVars

----------------------------------------------------------------------------
(* The properties of the instances, for the configurations. *)

\* RandomCache: data, keys and index describe one set of entries.
SlotsMatchEntries == R!SlotsMatchEntries

\* RandomCache: Add, Remove and Resize report how many entries left.
ResultsAreTrue == R!ResultsAreTrue

\* RandomCache implements the contract of an eviction policy.
RandomIsAPolicy == R!RandomIsAPolicy

\* TTLCache: an entry is served for exactly its lifetime.
ExpiresOnTime == T!ExpiresOnTime

\* TTLCache implements the contract of a policy that may lose entries.
TTLIsAPolicy == T!TTLIsAPolicy

\* AdaptedCache: what it infers about evictions is true.
ReportsAreInferred == A!ReportsAreInferred

\* AdaptedCache implements the contract of a policy that may turn entries away.
AdaptedIsAPolicy == A!AdaptedIsAPolicy

=============================================================================
