------------------------------ MODULE MCBoard ------------------------------
(* Two tabs and a program: posts by the same user, who may be new, by one  *)
(* whose name is too long, and posts with each kind of fault.              *)
EXTENDS Board, TLC

FromTabs == {[cookie |-> "Ann", form |-> "good"], [cookie |-> "Ann", form |-> "blank"],
             [cookie |-> "too long", form |-> "good"]}
FromClients == {[cookie |-> "Ann", form |-> "noKey"], [cookie |-> NoCookie, form |-> "good"],
                [cookie |-> "Ann", form |-> "noJson"]}
Tabs == Permutations(Tab)
=============================================================================
