---------------------------- MODULE MCComponents ----------------------------
(***************************************************************************)
(* The components that keep to themselves, checked side by side: none of   *)
(* them reads what another keeps, so a behaviour of them together is one   *)
(* of each, interleaved, and an instance runs one of them: "part".  Each   *)
(* has a last tick of its own.  The accounts are three: with the recovery  *)
(* of passwords, in two processes, and with the sessions over them.        *)
(***************************************************************************)
EXTENDS Trust, Directory, NetworkMap, ProxyClients, Sessions, RotationV3,
        Processes, Registry, Dialogs, Files, Contacts, Padding, TLC

CONSTANTS a, b, c, c1, e1, e2, f1, f2, f3, m1, none, p1, u1

VARIABLE part

componentVars == <<trustVars, directoryVars, mapVars, proxyVars, accountVars, sessionVars,
                   v3Vars, processVars, registryVars, dialogVars, fileVars,
                   contactVars, paddingVars, now>>

LimitDef == [x \in Actions |-> 1]
AskedDef == {<<"server", a>>, <<"region_load", "any">>}
MailInDef == f1 :> m1
MailFromDef == e1 :> "p" @@ e2 :> "q"
MeDef == [wellFormed |-> TRUE, server |-> FALSE, counted |-> FALSE]
FriendDef == [wellFormed |-> TRUE, server |-> FALSE, counted |-> TRUE]
PublicIdsDef == {MeDef, FriendDef} \union
    {[wellFormed |-> w, server |-> TRUE, counted |-> w] : w \in BOOLEAN} \union
    {[wellFormed |-> TRUE, server |-> TRUE, counted |-> FALSE]}
ChattedDef == {FriendDef}
KeyByteDef == [d \in {"pq"} |-> 0 :> 90 @@ 1 :> 255]
TextsDef == {[chars |-> 2, bytes |-> 4], [chars |-> 200, bytes |-> 200],
             [chars |-> 201, bytes |-> 300]}
PacketsDef == e1 :> 3 @@ e2 :> 2

LastTick == [trust |-> 3, directory |-> 3, map |-> 4, proxy |-> 1, accounts |-> 3,
             registrations |-> 0, sessions |-> 1, rotation |-> 1, processes |-> 0, registry |-> 0,
             dialogs |-> 0, files |-> 0, contacts |-> 0,
             padding |-> 0]

\* Bound: of a rotation in each direction, a fault and a tick, two at most.
Crossed == IF \A u \in Users : \E m \in sent[u] : m.type = "REQUEST" THEN 1 ELSE 0
RotationWithin == now + restarts + Cardinality(deleted) + Crossed <= 2

\* Bound: the loads that answers tell apart; "busy" counts for the load
\* balancer alone, which no property is about.
TwoLoads == \A e \in store : e.load # "busy"

\* Ids that are alike come in one order: the first client of the proxy is c1,
\* of p1, f2 registers before f3, and u1 is the first to ask for a rotation.
InOrder ==
    /\ sent[u1] = {} => sent' \in {sent, [sent EXCEPT ![u1] = sent'[u1]]}
    /\ issued = {} /\ issued' # {} => c1 \in DOMAIN clients' /\ clients'[c1].owner = p1
    /\ \A x \in accounts' : x.phrase = f3 => \E y \in accounts' : y.phrase = f2

\* Bound: what one process does, but in the part about two, without mails.
Still(p) ==
    /\ registering'[p] = registering[p] /\ keys'[p] = keys[p]
    /\ \A e \in MailAddresses : mailed'[<<p, e>>] = mailed[<<p, e>>]
ProcessesWithin ==
    IF part = "registrations" THEN mailed' = mailed
                              ELSE \A p \in AccountProcesses \ {1} : Still(p)

Init ==
    /\ TrustInit /\ DirectoryInit /\ NetworkMapInit /\ ProxyInit /\ AccountsInit
    /\ SessionsInit /\ V3Init /\ ProcessesInit /\ RegistryInit /\ DialogsInit /\ FilesInit
    /\ ContactsInit /\ PaddingInit
    /\ now = 0
    /\ part \in DOMAIN LastTick
    /\ part # "proxy" => maxClients = 1

Next ==
    /\ \/ part = "trust" /\ TrustNext
       \/ part = "directory" /\ DirectoryNext
       \/ part = "map" /\ NetworkMapNext
       \/ part = "proxy" /\ ProxyNext
       \/ part \in {"accounts", "registrations"} /\ AccountsNext
       \/ part = "sessions" /\ SessionsNext
       \/ part = "rotation" /\ V3Next
       \/ part = "processes" /\ ProcessesNext /\ UNCHANGED now
       \/ part = "registry" /\ RegistryNext /\ UNCHANGED now
       \/ part = "dialogs" /\ DialogsNext /\ UNCHANGED now
       \/ part = "files" /\ FilesNext /\ UNCHANGED now
       \/ part = "contacts" /\ ContactsNext /\ UNCHANGED now
       \/ part = "padding" /\ PaddingNext /\ UNCHANGED now
    /\ part # "trust" => UNCHANGED trustVars
    /\ part # "directory" => UNCHANGED directoryVars
    /\ part # "map" => UNCHANGED mapVars
    /\ part # "proxy" => UNCHANGED proxyVars
    /\ part \notin {"accounts", "registrations", "sessions"} => UNCHANGED accountVars
    /\ part # "sessions" => UNCHANGED sessionVars
    /\ part # "rotation" => UNCHANGED v3Vars
    /\ part # "processes" => UNCHANGED processVars
    /\ part # "registry" => UNCHANGED registryVars
    /\ part # "dialogs" => UNCHANGED dialogVars
    /\ part # "files" => UNCHANGED fileVars
    /\ part # "contacts" => UNCHANGED contactVars
    /\ part # "padding" => UNCHANGED paddingVars
    /\ now' <= LastTick[part]
    /\ part = "rotation" => RotationWithin'
    /\ part = "directory" => TwoLoads'
    /\ InOrder
    /\ ProcessesWithin
    /\ UNCHANGED part

Spec == Init /\ [][Next]_<<componentVars, part>>

\* The variables of every component are of the types its module gives; those
\* of the parts that do not run stay what they are at first.
ComponentsTypeOK ==
    /\ part = "trust" => TrustTypeOK
    /\ part = "directory" => DirectoryTypeOK
    /\ part = "map" => NetworkMapTypeOK
    /\ part = "proxy" => ProxyTypeOK
    /\ part \in {"accounts", "registrations", "sessions"} => AccountsTypeOK
    /\ part = "sessions" => SessionsTypeOK
    /\ part = "rotation" => V3TypeOK
    /\ part = "processes" => ProcessesTypeOK
    /\ part = "registry" => RegistryTypeOK
    /\ part = "dialogs" => DialogsTypeOK
    /\ part = "files" => FilesTypeOK
    /\ part = "contacts" => ContactsTypeOK
    /\ part = "padding" => PaddingTypeOK
=============================================================================
