------------------------------- MODULE MCFleet -------------------------------
(***************************************************************************)
(* A hosted and a client-infra client, one release, three states of the    *)
(* tfvars and the flag combinations of the runbook.                        *)
(***************************************************************************)
EXTENDS Fleet

CONSTANT t1

MCPosition == [c \in Clients |-> IF c = "acme" THEN 1 ELSE 2]
MCHosted == {"acme"}

MCTfvars ==
    { [c \in Clients |-> IF c = "acme" THEN "latest" ELSE "v1"],
      [c \in Clients |-> IF c = "acme" THEN "v1" ELSE "no line"],
      [c \in Clients |-> IF c = "acme" THEN "v1" ELSE "no file"] }

RunbookArgs ==
    { NoArgs,
      [NoArgs EXCEPT !.export_only = TRUE],
      [NoArgs EXCEPT !.skip_export = TRUE, !.extra_projects = TRUE],
      [NoArgs EXCEPT !.skip_export = TRUE, !.skip_destroy = TRUE],
      [NoArgs EXCEPT !.skip_export = TRUE, !.skip_destroy = TRUE, !.skip_verify = TRUE],
      [NoArgs EXCEPT !.skip_verify = TRUE],
      [NoArgs EXCEPT !.mark_only = TRUE],
      [NoArgs EXCEPT !.force = TRUE],
      [NoArgs EXCEPT !.mode = "hosted"],
      [NoArgs EXCEPT !.mode = "client-infra", !.skip_export = TRUE] }
=============================================================================
