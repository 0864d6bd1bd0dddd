---------------------------- MODULE MergePromise ----------------------------
(* What a client of the merge queue may rely on: requests are decided one  *)
(* by one and for good.  A request that succeeds brings into its target    *)
(* everything that its source contained at one moment before, and all of   *)
(* it at once; any other request brings nothing.  But one that found       *)
(* nothing to bring, and fails, may take the target's last commit back,    *)
(* whoever made it.  Meanwhile others may commit to the branches that are  *)
(* Open.                                                                   *)
EXTENDS Naturals, Sequences

CONSTANTS Req, Branch, Source, Target, Extra, Open, Begin

VARIABLES outcome,  \* none, queued, succeeded, failed or cancelled
          taken,    \* what a request is about to bring: <<>> or <<commits>>
          content   \* the commits of each branch, what each of them added

pvars == <<outcome, taken, content>>

PInit == /\ outcome = [r \in Req |-> "none"]
         /\ taken = [r \in Req |-> <<>>]
         /\ content = Begin

Submit(r) == /\ outcome[r] = "none"
             /\ outcome' = [outcome EXCEPT ![r] = "queued"]
             /\ UNCHANGED <<taken, content>>

Contains(b) == UNION {content[b][i] : i \in DOMAIN content[b]}

(* What merging brings now; a merge commit, named r, if there is any.      *)
Offer(r) == LET new == Contains(Source[r]) \ Contains(Target[r])
            IN  IF new = {} THEN {} ELSE new \cup {r}

Take(r) == /\ outcome[r] = "queued"
           /\ taken[r] = <<>>
           /\ taken' = [taken EXCEPT ![r] = <<Offer(r)>>]
           /\ UNCHANGED <<outcome, content>>

Decide(r, result) == /\ outcome[r] = "queued"
                     /\ outcome' = [outcome EXCEPT ![r] = result]
                     /\ taken' = [taken EXCEPT ![r] = <<>>]

Accept(r) ==
  LET brought == IF taken[r] = <<>> THEN Offer(r) ELSE taken[r][1] IN
  /\ Decide(r, "succeeded")
  /\ content' = [content EXCEPT ![Target[r]] =
                   IF brought = {} THEN @ ELSE Append(@, brought)]

(* The request failed, or was cancelled before anything was taken.         *)
Refuse(r) ==
  /\ Decide(r, "failed") \/ (taken[r] = <<>> /\ Decide(r, "cancelled"))
  /\ UNCHANGED content

(* The request failed when it had nothing to bring.                        *)
TakeBack(r) ==
  /\ taken[r] = <<{}>>
  /\ Len(content[Target[r]]) > 1
  /\ Decide(r, "failed")
  /\ content' = [content EXCEPT ![Target[r]] = SubSeq(@, 1, Len(@) - 1)]

Develop(b, c) == /\ content' = [content EXCEPT ![b] = Append(@, {c})]
                 /\ UNCHANGED <<outcome, taken>>

PNext == \/ \E r \in Req : Submit(r) \/ Take(r) \/ Accept(r) \/ Refuse(r) \/ TakeBack(r)
         \/ \E b \in Open, c \in Extra : Develop(b, c)

PromiseSpec == PInit /\ [][PNext]_pvars
=============================================================================
