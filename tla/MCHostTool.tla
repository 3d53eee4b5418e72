----------------------------- MODULE MCHostTool -----------------------------
(***************************************************************************)
(* HostTool with two processes, one private key file, the public key and   *)
(* the artifact made from it.                                              *)
(***************************************************************************)
EXTENDS HostTool, TLC

CONSTANTS p1, p2, key, pub, img

Cmd(o, i, f) == [op |-> o, in |-> i, out |-> f]

MCCommands ==
  {Cmd("generate", None, key), Cmd("public", key, pub), Cmd("sign", key, img),
   Cmd("show", key, None), Cmd("show", img, None)}

MCProcs == {p1, p2}
MCPaths == {key, pub, img}
Symmetry == Permutations(MCProcs)
=============================================================================
