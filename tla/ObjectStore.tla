----------------------------- MODULE ObjectStore -----------------------------
(***************************************************************************)
(* The uploaded images in S3 (external), as HeadObject and GetObject of    *)
(* src/storage/s3-object-store.ts see them.  An object matters only by     *)
(* whether its content type and length are those the statement was         *)
(* registered with.                                                        *)
(*                                                                         *)
(* The holder of a presigned URL may PUT any number of times, also after   *)
(* the upload was declared complete; the bucket's lifecycle rule removes   *)
(* objects.                                                                *)
(***************************************************************************)
EXTENDS Environment

VARIABLES
  object,  \* object[s]: what is stored under the key of statement s
  trust    \* history: whether a HeadObject once matched, and what came after

objectVars == <<object, trust>>

Objects == {"none", "matching", "mismatched"}

ObjectTypeOK ==
  /\ object \in [Statements -> Objects]
  /\ trust \in [Statements -> {"unchecked", "checked", "changed"}]

ObjectInit ==
  /\ object = [s \in Statements |-> "none"]
  /\ trust = [s \in Statements |-> "unchecked"]

\* The object of s becomes o: a client's PUT, or "none" when it expires.
StoreObject(s, o) ==
  /\ object[s] # o
  /\ object' = [object EXCEPT ![s] = o]
  /\ trust' = [trust EXCEPT ![s] = IF @ = "unchecked" THEN @ ELSE "changed"]

\* Mutant of HeadMatches: any object will do.
HeadFindsObject(s) ==
  /\ object[s] # "none"
  /\ trust' = [trust EXCEPT ![s] = IF @ = "unchecked" THEN "checked" ELSE @]
  /\ object' = object

\* HeadObject found the registered content type and length.
HeadMatches(s) ==
  /\ object[s] = "matching"
  /\ trust' = [trust EXCEPT ![s] = IF @ = "unchecked" THEN "checked" ELSE @]
  /\ object' = object

\* getObject finds the object.
ObjectFound(s) == object[s] # "none"

\* The body that was read has the registered type and length.
BodyMatches(s) == object[s] = "matching"
=============================================================================
