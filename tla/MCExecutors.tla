------------------------------ MODULE MCExecutors ------------------------------
(* Small instances of Executors. *)
EXTENDS Executors, TLC
CONSTANTS post, pic, reply, quote, like, del

Actions == (post :> "post") @@ (pic :> "post") @@ (reply :> "reply") @@ (quote :> "quote") @@ (like :> "engage") @@ (del :> "delete")
Media == [a \in Attempts |-> IF a = pic THEN 1 ELSE 0]
\* A reply and a quote say the same: only their targets tell them apart.
Texts == [a \in Attempts |-> IF a \in {reply, quote} THEN "same" 
                         ELSE IF a = pic THEN "caption"
                         ELSE IF a = post THEN "news" ELSE "none"]

\* Two attempts in turn, media, and handles that are called from two tasks.
Loads ==
  {[attempts |-> s, strays |-> 0, surprises |-> 1] :
     s \in {{reply, quote}, {post, like}, {del, post}}}
  \cup {[attempts |-> {pic}, strays |-> 0, surprises |-> 2]}
  \cup {[attempts |-> s, strays |-> 2, surprises |-> 1] : s \in {{post}, {reply}}}
  \cup {[attempts |-> {post, reply}, strays |-> 1, surprises |-> 0]}

================================================================================
