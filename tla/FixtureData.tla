---------------------------- MODULE FixtureData ----------------------------
(***************************************************************************)
(* A fixture's data and how the plate answers from it (fixtures/           *)
(* generate.ts, interceptor.ts, path-match.ts, route.ts).  Every surveyed  *)
(* endpoint with a response schema gets a canned answer; entities of one   *)
(* $ref come from one seeded pool, so a list and its items agree.  An      *)
(* entity is named by its pool and its place in it, which is also its id.  *)
(***************************************************************************)
EXTENDS Naturals, Sequences, FiniteSets, SequencesExt

CONSTANTS Refs,       \* schema names of the survey
          UnknownRef, \* a $ref the survey has no schema for
          ListSize,   \* LIST_SIZE
          MaxEndpoints

ASSUME FixtureDataAssumption ==
  /\ ListSize \in Nat \ {0}
  /\ IsFiniteSet(Refs) /\ {UnknownRef, "number", "word"} \cap Refs = {}

VARIABLES fdEndpoints, \* the survey's endpoints, in order
          fdGraph,     \* which $refs each schema holds
          fdRequest    \* the request the plate answers
fixtureDataVars == <<fdEndpoints, fdGraph, fdRequest>>

----------------------------------------------------------------------------
(* Endpoints and paths *)

Templates == {<<"api">>, <<"api", "param">>}
Shapes == [kind : {"list", "item"}, ref : Refs] \cup [kind : {"inline", "none"}]
Endpoints == [method : {"GET", "POST"}, path : Templates, shape : Shapes]
EntityIds == {<<r, i>> : r \in Refs, i \in 1 .. ListSize}
\* A request's last segment: an entity's id, a number no entity has, or a word.
PlateRequests == [method : {"GET", "HEAD", "POST"},
                  path : {<<"api">>} \cup {<<"api", s>> : s \in EntityIds \cup {<<"number", 0>>, <<"word", 0>>}}]

\* What the endpoints answer and how a schema is resolved do not depend on each other.
FixtureDataInit ==
  /\ \/ /\ fdEndpoints \in UNION {[1 .. n -> Endpoints] : n \in 1 .. MaxEndpoints}
        /\ fdGraph = [r \in Refs |-> {}]
     \/ /\ fdEndpoints = <<>>
        /\ fdGraph \in [Refs -> SUBSET (Refs \cup {UnknownRef})]
  /\ fdRequest = [method |-> "GET", path |-> <<"api">>]

isTemplateSegment(s) == s = "param"

\* segmentMatches, matchPath: a parameter stands for a number or a uuid.
matchPath(template, path) ==
  /\ Len(template) = Len(path)
  /\ \A i \in DOMAIN template :
       IF isTemplateSegment(template[i]) THEN path[i] # <<"word", 0>> ELSE template[i] = path[i]

\* parentListKey: the collection an item key's id is looked up in.
parentListKey(key) == [method |-> key.method, path |-> Front(key.path)]

----------------------------------------------------------------------------
(* generate.ts *)

\* dereferenceSchema: the chains of refs it expands under a schema, given the names seen
\* on the way.  A name met again, and a name without a schema, become a bare object.
dereferenceSchema[p \in Refs \X SUBSET Refs] ==
  {<<p[1]>>} \cup
  UNION {{<<p[1]>> \o chain : chain \in dereferenceSchema[<<r, p[2] \cup {r}>>]} :
           r \in (fdGraph[p[1]] \cap Refs) \ p[2]}

\* Mutant: the walk is cut by its depth.
CutByDepth(ref) == {chain \in dereferenceSchema[<<ref, {ref}>>] : Len(chain) <= 2}

Expanded(ref) == dereferenceSchema[<<ref, {ref}>>]

\* poolFor: drawn once per ref, each entity from its own seed.
Pool(ref) == [i \in 1 .. ListSize |-> <<ref, i>>]
Inline == <<"inline", 0>>
KeyOf(e) == [method |-> e.method, path |-> e.path]
Response(shape) == IF shape.kind = "list" THEN Pool(shape.ref)
                   ELSE IF shape.kind = "item" THEN Pool(shape.ref)[1]
                   ELSE Inline

\* Object.keys(responses): in the order the keys were first written; a second endpoint
\* with the same key replaces the answer and keeps the place.
Answered == {i \in DOMAIN fdEndpoints : fdEndpoints[i].shape.kind # "none"}
Keys == [i \in Answered |-> KeyOf(fdEndpoints[i])]
LastAt(key) == CHOOSE i \in Answered :
                 Keys[i] = key /\ \A j \in Answered : Keys[j] = key => j <= i
generateFixture == [key \in {Keys[i] : i \in Answered} |-> fdEndpoints[LastAt(key)].shape]

----------------------------------------------------------------------------
(* interceptor.ts, and the proof a load asks the plate for (route.ts) *)

Declined == [served |-> FALSE]
Matches(key, req, method) == key.method = method /\ matchPath(key.path, req.path)
FirstMatch(req, method) ==
  {key \in DOMAIN generateFixture :
     /\ Matches(key, req, method)
     /\ \E i \in Answered : /\ Keys[i] = key
                            /\ \A j \in Answered : j < i => ~Matches(Keys[j], req, method)}

ItemOf(key, req) ==
  LET shape == generateFixture[key]
      list == parentListKey(key)
  IN IF /\ isTemplateSegment(Last(key.path))
        /\ list \in DOMAIN generateFixture
        /\ generateFixture[list].kind = "list"
        /\ \E i \in 1 .. ListSize : Pool(generateFixture[list].ref)[i] = Last(req.path)
     THEN Last(req.path)
     ELSE Response(shape)

\* Mutant: an item is the first of the pool, whatever was asked for.
FirstOfThePool(req, method) ==
  IF FirstMatch(req, method) = {} THEN Declined
  ELSE LET key == CHOOSE k \in FirstMatch(req, method) : TRUE
       IN [served |-> TRUE, body |-> Response(generateFixture[key])]

PayloadFor(req, method) ==
  IF FirstMatch(req, method) = {} THEN Declined
  ELSE LET key == CHOOSE k \in FirstMatch(req, method) : TRUE
       IN [served |-> TRUE, body |-> ItemOf(key, req)]

\* Mutant: HEAD is looked up as a method of its own.
MethodsLiterally(req) == PayloadFor(req, req.method)

\* HEAD is answered as GET would be, without the body.
createFixtureInterceptor(req) ==
  IF req.method # "HEAD" THEN PayloadFor(req, req.method)
  ELSE IF PayloadFor(req, "GET") = Declined THEN Declined
  ELSE [served |-> TRUE]

\* pickProbeKey: the first GET key without a parameter.
ProbeKeys == {key \in DOMAIN generateFixture : key.method = "GET" /\ key.path = <<"api">>}

\* The plate is asked something else.
NextRequest ==
  /\ fdEndpoints # <<>>
  /\ fdRequest' \in PlateRequests
  /\ UNCHANGED <<fdEndpoints, fdGraph>>

FixtureDataNext == NextRequest
FixtureDataSpec == FixtureDataInit /\ [][FixtureDataNext]_fixtureDataVars

----------------------------------------------------------------------------
\* An item asked for by an id that the fixture's own list holds is that entity, whatever
\* else the survey has at that path (generate.ts:180-182, "a list and its sibling
\* item/create endpoints agree on ids").
ItemsAgreeWithList ==
  LET list == [method |-> fdRequest.method, path |-> <<"api">>]
      item == [method |-> fdRequest.method, path |-> <<"api", "param">>]
  IN /\ Len(fdRequest.path) = 2 /\ fdRequest.method # "HEAD"
     /\ {list, item} \subseteq DOMAIN generateFixture
     /\ generateFixture[list].kind = "list"
     /\ fdRequest.path[2][1] = generateFixture[list].ref
     => createFixtureInterceptor(fdRequest).body = fdRequest.path[2]

\* A fixture that has an endpoint to prove itself with always answers its HEAD probe
\* (route.ts:35-69; interceptor.ts:46-48), and no request it declines with GET.
ProofIsAnswered ==
  /\ ProbeKeys # {} => createFixtureInterceptor([method |-> "HEAD", path |-> <<"api">>]) # Declined
  /\ fdRequest.method = "HEAD" =>
       (createFixtureInterceptor(fdRequest) = Declined
          <=> createFixtureInterceptor([fdRequest EXCEPT !.method = "GET"]) = Declined)

\* Resolving $refs expands every chain on which no name repeats and no other: it ends on
\* cyclic schemas and never cuts an acyclic one short (generate.ts:52-63).
SimplePaths(ref) ==
  {s \in UNION {[1 .. n -> Refs] : n \in 1 .. Cardinality(Refs)} :
     /\ s[1] = ref
     /\ \A i \in 1 .. Len(s) - 1 : s[i + 1] \in fdGraph[s[i]]
     /\ \A i, j \in DOMAIN s : s[i] = s[j] => i = j}
DereferenceComplete == \A ref \in Refs : Expanded(ref) = SimplePaths(ref)
=============================================================================
