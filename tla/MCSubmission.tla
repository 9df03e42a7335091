--------------------------- MODULE MCSubmission ---------------------------
(* Three requests among a project, a queue and a retry policy that may exist;
   x1 is one of the requests, so its row may be what another one names. *)
EXTENDS Submission
CONSTANTS x1, x2, x3, seed, lower, upper, k1, k2

Ask(kind, on) ==
  [kind |-> kind, on |-> on, ref |-> None, name |-> None, keys |-> << >>]

Asked == {
  [Ask("createProject", None) EXCEPT !.name = lower],
  [Ask("renameProject", seed) EXCEPT !.name = upper],
  Ask("deleteProject", seed),
  [Ask("createJobType", seed) EXCEPT !.name = lower],
  [Ask("renameJobType", seed) EXCEPT !.ref = x1, !.name = upper],
  [Ask("deleteJobType", seed) EXCEPT !.ref = x1],
  Ask("createPolicy", None), Ask("listPolicies", None),
  Ask("patchPolicy", x1), Ask("deletePolicy", seed), Ask("deletePolicy", x1),
  [Ask("createQueue", seed) EXCEPT !.name = lower, !.ref = seed],
  [Ask("patchQueue", seed) EXCEPT !.ref = x1],
  [Ask("patchQueue", x1) EXCEPT !.name = upper],
  [Ask("createJob", seed) EXCEPT !.keys = << None >>],
  [Ask("createJob", seed) EXCEPT !.keys = << k1 >>],
  Ask("createBatch", seed),
  [Ask("createBatch", seed) EXCEPT !.keys = << k1, k1 >>],
  [Ask("createBatch", seed) EXCEPT !.keys = << k1, k2 >>],
  [Ask("createBatch", seed) EXCEPT !.keys = << k2, k1 >>] }
=============================================================================
