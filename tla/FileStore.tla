------------------------------ MODULE FileStore ------------------------------
(***************************************************************************)
(* What a backup service promises about the files it has accepted writes   *)
(* for, whatever it has done of them so far: a write is made once, on the  *)
(* file as all the writes accepted before left it, and only a loss, of     *)
(* which there are no more than are counted, makes a difference to a file  *)
(* in another way.                                                         *)
(***************************************************************************)
EXTENDS Naturals, Sequences

CONSTANTS BSs, Files, RequestIds

VARIABLES
  content,   \* [BSs -> [Files -> Seq(RequestIds)]]
  losses     \* [BSs -> Nat]

Init ==
  /\ content = [b \in BSs |-> [f \in Files |-> <<>>]]
  /\ losses = [b \in BSs |-> 0]

(* The service accepts a write: the file is replaced, appended to with     *)
(* what is later than all it holds, or deleted.                            *)
Accept(b, f, i) ==
  /\ \A n \in DOMAIN content[b][f] : content[b][f][n] < i
  /\ \/ content' = [content EXCEPT ![b][f] = <<i>>]
     \/ content' = [content EXCEPT ![b][f] = Append(@, i)]
     \/ content' = [content EXCEPT ![b][f] = <<>>]
  /\ UNCHANGED losses

Lose(b) ==
  /\ losses' = [losses EXCEPT ![b] = @ + 1]
  /\ \A c \in BSs \ {b} : content'[c] = content[c]

Next == \E b \in BSs : Lose(b) \/ \E f \in Files, i \in RequestIds : Accept(b, f, i)

Spec == Init /\ [][Next]_<<content, losses>>
=============================================================================
