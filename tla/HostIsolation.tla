---------------------------- MODULE HostIsolation ----------------------------
(***************************************************************************)
(* The isolation crate: the nftables table aigis_isolation and the three   *)
(* ways in which IsolationManager uses nft.  The rules live in the kernel: *)
(* they outlive the agent and end with a reboot.                           *)
(***************************************************************************)
EXTENDS Naturals

CONSTANTS Address,      \* addresses the fleet server's endpoint may resolve to
          MaxNftErrors  \* bound: invocations of nft that fail

ASSUME NftAssumption == MaxNftErrors \in Nat

VARIABLES isolated,     \* the table exists
          accepts,      \* addresses its rules let through
          masked,       \* history: an error of nft was taken for success
          nftErrors     \* history

nftVars == <<isolated, accepts, masked, nftErrors>>

NftInit == isolated = FALSE /\ accepts = {} /\ masked = FALSE /\ nftErrors = 0

\* nft -f -: all of the table or nothing.  A table that is there already gets
\* the rules a second time.
isolate(ip) ==
    /\ isolated' = TRUE
    /\ accepts' = accepts \cup {ip}
    /\ UNCHANGED <<masked, nftErrors>>

\* nft cannot be started or refuses the rules.
isolate_fails ==
    /\ nftErrors < MaxNftErrors
    /\ nftErrors' = nftErrors + 1
    /\ UNCHANGED <<isolated, accepts, masked>>

\* nft delete table; that there is none is no error.
de_isolate ==
    /\ isolated' = FALSE
    /\ accepts' = {}
    /\ masked' = FALSE
    /\ UNCHANGED nftErrors

\* The kernel refuses the deletion.  Its message contains "could not process
\* rule" like every error of the kernel, which de_isolate takes for success.
de_isolate_masked ==
    /\ isolated /\ nftErrors < MaxNftErrors
    /\ nftErrors' = nftErrors + 1
    /\ masked' = TRUE
    /\ UNCHANGED <<isolated, accepts>>

\* nft cannot be started, or fails before it asks the kernel.
de_isolate_fails ==
    /\ nftErrors < MaxNftErrors
    /\ nftErrors' = nftErrors + 1
    /\ UNCHANGED <<isolated, accepts, masked>>

\* A reboot empties the tables.
NftReset ==
    /\ isolated' = FALSE /\ accepts' = {} /\ masked' = FALSE
    /\ UNCHANGED nftErrors

=============================================================================
