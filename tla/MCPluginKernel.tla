--------------------------- MODULE MCPluginKernel ---------------------------
(***************************************************************************)
(* TLC instances of the kernel's registry and of the two stores that its   *)
(* plugins open: the sessions with their index (SqliteStoragePlugin) and   *)
(* the vault of the registry of agents (SystemControlPlugin).  They share  *)
(* no state: a behavior is one of a single part, while the variables of    *)
(* the others keep their first value.                                      *)
(***************************************************************************)
EXTENDS PluginKernel, SessionIndex, DatabaseVault, TLC

VARIABLE part   \* the part that runs

allVars == <<part, vars, sessionVars, vaultVars>>

\* Three plugins of the boot, one of them with two tools, and one that a file adds.
MCPlugins == {"fs", "web", "lsp", "ext"}

MCTools == {"fs.read", "fs.write", "web.get", "lsp.find", "ext.run"}

MCProvides ==
  [p \in MCPlugins |->
     CASE p = "fs" -> {"fs.read", "fs.write"}
       [] p = "web" -> {"web.get"}
       [] p = "lsp" -> {"lsp.find"}
       [] p = "ext" -> {"ext.run"}]

\* "ext" is not a boot plugin: a file dropped into a plugin directory.
MCBootOrder == <<"fs", "web", "lsp">>

\* Requests are compared for equality only, and no liveness is checked.
RequestSymmetry == Permutations(Requests)

AllInit ==
  /\ part \in {"kernel", "sessions", "vault"}
  /\ Init /\ (part = "kernel" \/ awaited)
  /\ IndexInit /\ VaultInit

AllNext ==
  /\ UNCHANGED part
  /\ \/ part = "kernel" /\ Next /\ UNCHANGED <<sessionVars, vaultVars>>
     \/ part = "sessions" /\ IndexNext /\ UNCHANGED <<vars, vaultVars>>
     \/ part = "vault" /\ VaultNext /\ UNCHANGED <<vars, sessionVars>>

AllSpec == AllInit /\ [][AllNext]_allVars
=============================================================================
