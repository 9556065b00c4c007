---------------------------- MODULE MCRuleEngine ----------------------------
(* RuleEngine for TLC: one shard and signature, and a rules directory        *)
(* that is complete, has a file that does not compile, or is missing.       *)
EXTENDS RuleEngine

OneShard == [s \in Signature |-> 1]
Processes == [p \in Payload |-> "process"]

MCDirectory == {[process |-> {"r1", "r2"}, mitre |-> {"taxonomy"}],
                [process |-> {"r1", "draft"}],
                [s \in {} |-> {}]}

Finds == [r \in SUBSET Rule |-> [p \in Payload |->
            IF p \in {Empty, Poison} \/ r = {} THEN <<>> ELSE <<"a">>]]

=============================================================================
