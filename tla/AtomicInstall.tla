---------------------------- MODULE AtomicInstall ----------------------------
(***************************************************************************)
(* What an update transaction promises to the rest of the product.         *)
(*                                                                         *)
(* An installation is at one of two releases, "old" and "new".  While a    *)
(* transaction is pending its files may be any mixture and nobody may rely *)
(* on them; the release the installation is committed to changes once, in  *)
(* one step, from old to new; and when the transaction is dropped the      *)
(* installation shows exactly the release it is committed to.              *)
(***************************************************************************)
VARIABLES
    committed,   \* the release recovery would settle on: "old" or "new"
    pending,     \* a transaction directory exists
    shows        \* what the managed files and the record are: a release or "mixture"

installVars == <<committed, pending, shows>>

Releases == {"old", "new"}

InstallInit == committed = "old" /\ pending = FALSE /\ shows = "old"

\* A transaction directory appears.
Open == ~pending /\ pending' = TRUE /\ UNCHANGED <<committed, shows>>

\* Files and record move under the protection of the pending transaction.
Mutate == pending /\ shows' \in Releases \cup {"mixture"} /\ UNCHANGED <<committed, pending>>

\* The one step that decides the update.
Commit == pending /\ committed = "old" /\ shows = "new"
          /\ committed' = "new" /\ UNCHANGED <<pending, shows>>

\* The transaction is dropped: nothing is left half done.
Close == pending /\ shows = committed /\ pending' = FALSE /\ UNCHANGED <<committed, shows>>

InstallNext == Open \/ Mutate \/ Commit \/ Close

InstallSpec == InstallInit /\ [][InstallNext]_installVars
==============================================================================
