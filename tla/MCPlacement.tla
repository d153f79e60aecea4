----------------------------- MODULE MCPlacement ----------------------------
(***************************************************************************)
(* The data structures that decide where a value is kept, in one model:    *)
(* the red-black tree and the ring on top of it, the ring of chash.lua,    *)
(* the paths and the MD5 buffers.  They share no state; a behaviour        *)
(* exercises the one that part names and leaves the variables of the       *)
(* others alone.                                                           *)
(***************************************************************************)
EXTENDS MCRBTree, ConHash, CHashLua, MCRouting, Md5Buffer

ASSUME BoundsAssumption /\ RoutingAssumption /\ BlocksAssumption

VARIABLE part

allVars == <<part, vars, ringVars, luaVars, routingVars, md5Vars>>

\* Of the components with more than one initial state, the ring and the paths
\* have one when they are not the part.
MCInit ==
  /\ part \in {"tree", "ring", "lua", "files", "md5"}
  /\ Init /\ RingInit /\ LuaInit /\ RoutingInit /\ Md5Init
  /\ part # "ring" => \A x \in DOMAIN hashes : hashes[x] = Min(Points)
  /\ part # "files" => seed = Min(Seeds)

TreeStep  == part = "tree" /\ Next
             /\ UNCHANGED <<part, ringVars, luaVars, routingVars, md5Vars>>
RingStep  == part = "ring" /\ RingNext
             /\ UNCHANGED <<part, vars, luaVars, routingVars, md5Vars>>
LuaStep   == part = "lua" /\ LuaNext
             /\ UNCHANGED <<part, vars, ringVars, routingVars, md5Vars>>
FilesStep == part = "files" /\ RoutingNext
             /\ UNCHANGED <<part, vars, ringVars, luaVars, md5Vars>>
Md5Step   == part = "md5" /\ Md5Next
             /\ UNCHANGED <<part, vars, ringVars, luaVars, routingVars>>

MCNext == TreeStep \/ RingStep \/ LuaStep \/ FilesStep \/ Md5Step

MCSpec == MCInit /\ [][MCNext]_allVars
=============================================================================
