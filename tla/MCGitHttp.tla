----------------------------- MODULE MCGitHttp -----------------------------
(* Instances of GitHttp for TLC.                                            *)
EXTENDS GitHttp, TLC

AllOps == {"refs", "fetch", "push", "bare", "other"}
AllBackends == {"gitaly", "sidecar", "rails"}
=============================================================================
