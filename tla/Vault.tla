------------------------------- MODULE Vault -------------------------------
(***************************************************************************)
(* What the cloud keyring promises to its readers.  A vault has an epoch,  *)
(* a master key and the content keys committed so far.  A rotation is one  *)
(* atomic step that loses no content key; each device follows the epochs   *)
(* at its own pace and never goes back.                                    *)
(***************************************************************************)
EXTENDS Integers

CONSTANT Devices

VARIABLES
  epoch,   \* rotations so far, plus one
  master,  \* the master key
  keys,    \* content keys: an epoch of their own, and the master they came with
  at       \* at[d]: the vault epoch device d works at

vaultVars == <<epoch, master, keys, at>>

VaultInit ==
  /\ epoch = 1
  /\ keys = {[epoch |-> 1, key |-> master]}
  /\ at = [d \in Devices |-> 1]

\* Whatever is added is newer than all there was, and comes with masters no
\* committed key came with; one of them is the master of the next epoch.
Rotate ==
  /\ epoch' = epoch + 1
  /\ keys \subseteq keys'
  /\ \A new \in keys' \ keys, k \in keys : new.epoch > k.epoch /\ new.key # k.key
  /\ \E new \in keys' \ keys : new.key = master'
  /\ UNCHANGED at

Adopt(d) ==
  /\ \E e \in at[d] + 1 .. epoch : at' = [at EXCEPT ![d] = e]
  /\ UNCHANGED <<epoch, master, keys>>

VaultNext == Rotate \/ \E d \in Devices : Adopt(d)

VaultSpec == VaultInit /\ [][VaultNext]_vaultVars

=============================================================================
