---------------------------- MODULE MCControlPlane ----------------------------
(***************************************************************************)
(* Small instances of ControlPlane: two workers; deployments in one or two *)
(* namespaces; tags of one release line, of which "1.10.0" is the newest   *)
(* and the first in string order, "1.9.0" has two builds, and "v1.8.0" is  *)
(* the last in string order.                                               *)
(***************************************************************************)
EXTENDS ControlPlane

Tag(raw, minor, sequence) ==
  [raw |-> raw, semver |-> TRUE, version |-> <<1, minor, 0>>, sequence |-> sequence]

Newest == Tag(0, 10, 0)
Release == Tag(2, 9, 7)
Rebuilt == Tag(3, 9, 7)
Previous == Tag(1, 8, 0)
Prefixed == Tag(4, 8, 0)

MCNamespaceOf == [c \in Components |-> IF c = "a/web/web" THEN "a" ELSE "b"]
MCSlug == [c \in Components |-> IF c = "a/web/web" THEN "a-web-web" ELSE "b-api-api"]
MCNamespaces == <<"a", "b">>
OneNamespace == <<"a">>
WorkerSymmetry == Permutations(Workers)

MCStart == [c \in Components |->
  IF c = "a/web/web" THEN [image |-> Release, tags |-> (Release :> 1 @@ Rebuilt :> 1)]
                     ELSE [image |-> Release, tags |-> (Newest :> 1 @@ Release :> 1 @@ Prefixed :> 1)]]
Behind == [c \in Components |->
  [image |-> Release, tags |-> (Release :> 1 @@ Newest :> 1)]]
Paged == [c \in Components |->
  [image |-> Release, tags |-> (Previous :> 1 @@ Release :> 1)]]

MCPublished == {Newest}
=============================================================================
