--------------------------- MODULE QueryLifecycle ---------------------------
(***************************************************************************)
(* What a GraphQL WebSocket connection promises its client, whatever its   *)
(* coroutines, its channel and its timers do.  An id is free or held by    *)
(* one running query.  A query says results while it runs and gives its id *)
(* back with a COMPLETE or an ERROR; after that it may say one word more,  *)
(* which was on its way already, and then it is silent.                    *)
(***************************************************************************)
EXTENDS Naturals, Sequences, TLAPS

CONSTANTS
  Queries,   (* the queries of the connection                              *)
  NoQuery,   (* held by no query                                           *)
  Ids,       (* the message ids the client uses                            *)
  NoId       (* an absent id                                               *)

(* What is absent is none of what is there.                                *)
AbsentOK == NoQuery \notin Queries /\ NoId \notin Ids

Results == {"data", "next"}
Ends == {"complete", "error"}

VARIABLES
  closed,    (* the session has been closed, by either side                *)
  holder,    (* the query that holds each id                               *)
  idOf,      (* the id of each query                                       *)
  status,    (* how far each query is                                      *)
  said       (* what the client was sent for each query                    *)

vars == <<closed, holder, idOf, status, said>>

Init ==
  /\ closed = FALSE
  /\ holder = [id \in Ids |-> NoQuery]
  /\ idOf = [q \in Queries |-> NoId]
  /\ status = [q \in Queries |-> "new"]
  /\ said = [q \in Queries |-> <<>>]

(* A query whose id is given back has one word left at most.               *)
Finished == {"ended", "over"}

(* Words to a session that is closed are lost.                             *)
Say(q, word) ==
  said' = IF closed THEN said ELSE [said EXCEPT ![q] = Append(@, word)]

Accept(q, id) ==
  /\ status[q] = "new"
  /\ holder[id] = NoQuery
  /\ holder' = [holder EXCEPT ![id] = q]
  /\ idOf' = [idOf EXCEPT ![q] = id]
  /\ status' = [status EXCEPT ![q] = "running"]
  /\ UNCHANGED <<closed, said>>

Result(q) ==
  /\ status[q] = "running"
  /\ \E word \in Results : Say(q, word)
  /\ UNCHANGED <<closed, holder, idOf, status>>

End(q) ==
  /\ status[q] = "running"
  /\ \E word \in Ends : Say(q, word)
  /\ holder' = [holder EXCEPT ![idOf[q]] = NoQuery]
  /\ \E s \in Finished : status' = [status EXCEPT ![q] = s]
  /\ UNCHANGED <<closed, idOf>>

LastResult(q) ==
  /\ status[q] = "ended"
  /\ ~closed
  /\ \E word \in Results : Say(q, word)
  /\ status' = [status EXCEPT ![q] = "over"]
  /\ UNCHANGED <<closed, holder, idOf>>

(* A last word that ends a query takes its id from the query that holds it *)
(* by now, which ends unannounced.                                         *)
LastEnd(q) ==
  LET id == idOf[q]
      mine == IF closed THEN "ended" ELSE "over"
  IN  /\ status[q] = "ended"
      /\ \E word \in Ends : Say(q, word)
      /\ holder' = [holder EXCEPT ![id] = NoQuery]
      /\ \E s \in Finished :
           status' = [p \in Queries |-> IF p = q THEN mine
                                        ELSE IF p = holder[id] THEN s ELSE status[p]]
      /\ UNCHANGED <<closed, idOf>>

Close ==
  /\ closed' = TRUE
  /\ UNCHANGED <<holder, idOf, status, said>>

Next ==
  \/ \E q \in Queries :
       (\E id \in Ids : Accept(q, id)) \/ Result(q) \/ End(q) \/ LastResult(q) \/ LastEnd(q)
  \/ Close

Spec == Init /\ [][Next]_vars

-----------------------------------------------------------------------------
(* Types of the state.                                                     *)
TypeOK ==
  /\ closed \in BOOLEAN
  /\ holder \in [Ids -> Queries \cup {NoQuery}]
  /\ idOf \in [Queries -> Ids \cup {NoId}]
  /\ status \in [Queries -> {"new", "running"} \cup Finished]
  /\ said \in [Queries -> Seq(Results \cup Ends)]

(* An id is held by the query that runs under it, and by no other.         *)
HoldersRun ==
  \A q \in Queries, id \in Ids : holder[id] = q <=> status[q] = "running" /\ idOf[q] = id

(* After the COMPLETE or the ERROR of a query the client hears one word    *)
(* more of it at most.                                                     *)
OneWordAfterEnd ==
  \A q \in Queries : \A i \in DOMAIN said[q] : said[q][i] \in Ends => Len(said[q]) <= i + 1

-----------------------------------------------------------------------------
(* What a query has said tells how far it is: results only as long as it   *)
(* runs, and nothing yet after the word that ended it.                     *)
SaidBy(q) ==
  /\ status[q] \in {"new", "running"} => \A i \in DOMAIN said[q] : said[q][i] \notin Ends
  /\ status[q] = "ended" =>
       \A i \in DOMAIN said[q] : said[q][i] \in Ends => Len(said[q]) <= i

SaidSoFar == \A q \in Queries : SaidBy(q)

(* A query that was accepted has an id of the client.                      *)
AcceptedHaveIds == \A q \in Queries : status[q] # "new" => idOf[q] \in Ids

LifecycleInv == AbsentOK /\ TypeOK /\ HoldersRun /\ AcceptedHaveIds /\ OneWordAfterEnd /\ SaidSoFar

(* One word more.                                                          *)
LEMMA SayLemma ==
  ASSUME TypeOK, NEW q \in Queries, NEW word \in Results \cup Ends, Say(q, word)
  PROVE  /\ said' \in [Queries -> Seq(Results \cup Ends)]
         /\ \A p \in Queries : p # q => said'[p] = said[p]
         /\ \/ said'[q] = said[q] /\ closed
            \/ /\ ~closed
               /\ Len(said'[q]) = Len(said[q]) + 1 /\ Len(said[q]) \in Nat
               /\ DOMAIN said[q] = 1..Len(said[q])
               /\ DOMAIN said'[q] = 1..(Len(said[q]) + 1)
               /\ \A i \in 1..Len(said[q]) : said'[q][i] = said[q][i]
               /\ said'[q][Len(said[q]) + 1] = word
<1>1. said[q] \in Seq(Results \cup Ends)
  BY DEF TypeOK
<1>2. CASE closed
  BY <1>2 DEF Say, TypeOK
<1>3. CASE ~closed
  <2>1. said' = [said EXCEPT ![q] = Append(@, word)]
    BY <1>3 DEF Say
  <2>2. said'[q] = Append(said[q], word) /\ \A p \in Queries : p # q => said'[p] = said[p]
    BY <2>1 DEF TypeOK
  <2>3. said' \in [Queries -> Seq(Results \cup Ends)]
    BY <1>1, <2>1 DEF TypeOK
  <2>4. QED
    BY <1>1, <1>3, <2>2, <2>3
<1>4. QED
  BY <1>2, <1>3

LEMMA LifecycleInit == AbsentOK /\ Init => LifecycleInv
<1> SUFFICES ASSUME AbsentOK, Init PROVE LifecycleInv
  OBVIOUS
<1>1. TypeOK
  <2>1. holder \in [Ids -> Queries \cup {NoQuery}] /\ idOf \in [Queries -> Ids \cup {NoId}]
    BY DEF Init
  <2>2. said \in [Queries -> Seq(Results \cup Ends)]
    <3>1. <<>> \in Seq(Results \cup Ends)
      OBVIOUS
    <3>2. QED
      BY <3>1 DEF Init
  <2>3. closed \in BOOLEAN /\ status \in [Queries -> {"new", "running"} \cup Finished]
    BY DEF Init
  <2>4. QED
    BY <2>1, <2>2, <2>3 DEF TypeOK
<1>2. HoldersRun /\ AcceptedHaveIds
  BY DEF AbsentOK, Init, HoldersRun, AcceptedHaveIds
<1>3. \A q \in Queries : DOMAIN said[q] = {}
  BY DEF Init
<1>4. OneWordAfterEnd /\ SaidSoFar
  BY <1>3 DEF OneWordAfterEnd, SaidSoFar, SaidBy
<1>5. QED
  BY <1>1, <1>2, <1>4 DEF LifecycleInv

LEMMA LifecycleStep == LifecycleInv /\ [Next]_vars => LifecycleInv'
<1> SUFFICES ASSUME LifecycleInv, [Next]_vars PROVE LifecycleInv'
  OBVIOUS
<1> USE DEF AbsentOK, LifecycleInv
<1>0. \A q \in Queries : Len(said[q]) \in Nat /\ DOMAIN said[q] = 1..Len(said[q])
  BY DEF TypeOK
<1>1. ASSUME NEW q \in Queries, NEW id \in Ids, Accept(q, id) PROVE LifecycleInv'
  <2>1. TypeOK'
    BY <1>1 DEF Accept, TypeOK
  <2>2. HoldersRun' /\ AcceptedHaveIds'
    BY <1>1 DEF Accept, TypeOK, HoldersRun, AcceptedHaveIds
  <2>3. OneWordAfterEnd' /\ SaidSoFar'
    BY <1>1 DEF Accept, TypeOK, OneWordAfterEnd, SaidSoFar, SaidBy
  <2>4. QED
    BY <2>1, <2>2, <2>3
<1>2. ASSUME NEW q \in Queries, Result(q) PROVE LifecycleInv'
  <2>1. PICK word \in Results : Say(q, word)
    BY <1>2 DEF Result
  <2>2. TypeOK' /\ HoldersRun' /\ AcceptedHaveIds'
    BY <1>2, <2>1, SayLemma DEF Result, TypeOK, HoldersRun, AcceptedHaveIds
  <2>3. word \notin Ends
    BY DEF Results, Ends
  <2>4. \A i \in DOMAIN said'[q] : said'[q][i] \notin Ends
    BY <1>0, <1>2, <2>1, <2>3, SayLemma DEF Result, SaidSoFar, SaidBy
  <2>5. \A p \in Queries : p # q => said'[p] = said[p]
    BY <2>1, SayLemma
  <2>6. OneWordAfterEnd'
    BY <2>4, <2>5 DEF OneWordAfterEnd
  <2>7. status' = status /\ status[q] = "running"
    BY <1>2 DEF Result
  <2>8. SaidSoFar'
    BY <2>4, <2>5, <2>7 DEF SaidSoFar, SaidBy
  <2>9. QED
    BY <2>2, <2>6, <2>8
<1>3. ASSUME NEW q \in Queries, End(q) PROVE LifecycleInv'
  <2>1. PICK word \in Ends : Say(q, word)
    BY <1>3 DEF End
  <2>2. PICK s \in Finished : status' = [status EXCEPT ![q] = s]
    BY <1>3 DEF End
  <2>3. idOf[q] \in Ids /\ holder[idOf[q]] = q
    BY <1>3 DEF End, HoldersRun, AcceptedHaveIds
  <2>4. TypeOK'
    BY <1>3, <2>1, <2>2, SayLemma DEF End, TypeOK
  <2>5. HoldersRun' /\ AcceptedHaveIds'
    BY <1>3, <2>2, <2>3 DEF End, TypeOK, HoldersRun, AcceptedHaveIds, Finished
  <2>6. \A i \in DOMAIN said'[q] : said'[q][i] \in Ends => Len(said'[q]) <= i
    BY <1>0, <1>3, <2>1, SayLemma DEF End, SaidSoFar, SaidBy
  <2>7. \A p \in Queries : p # q => status'[p] = status[p] /\ said'[p] = said[p]
    BY <2>1, <2>2, SayLemma DEF TypeOK
  <2>8. status'[q] \notin {"new", "running"}
    BY <2>2 DEF TypeOK, Finished
  <2>9. \A i \in DOMAIN said'[q] : i \in Nat /\ Len(said'[q]) \in Nat
    BY <2>4 DEF TypeOK
  <2>10. OneWordAfterEnd' /\ SaidSoFar'
    BY <2>6, <2>7, <2>8, <2>9 DEF OneWordAfterEnd, SaidSoFar, SaidBy
  <2>11. QED
    BY <2>4, <2>5, <2>10
<1>4. ASSUME NEW q \in Queries, LastResult(q) PROVE LifecycleInv'
  <2>1. PICK word \in Results : Say(q, word)
    BY <1>4 DEF LastResult
  <2>2. TypeOK' /\ HoldersRun' /\ AcceptedHaveIds'
    BY <1>4, <2>1, SayLemma DEF LastResult, TypeOK, HoldersRun, AcceptedHaveIds, Finished
  <2>3. \A i \in DOMAIN said'[q] : said'[q][i] \in Ends => Len(said'[q]) <= i + 1
    <3>1. \A i \in DOMAIN said[q] : said[q][i] \in Ends => Len(said[q]) <= i
      BY <1>4 DEF LastResult, SaidSoFar, SaidBy
    <3>2. ~closed /\ word \notin Ends
      BY <1>4 DEF LastResult, Results, Ends
    <3>3. QED
      BY <1>0, <2>1, <3>1, <3>2, SayLemma
  <2>4. \A p \in Queries : p # q => said'[p] = said[p] /\ status'[p] = status[p]
    BY <1>4, <2>1, SayLemma DEF LastResult, TypeOK
  <2>5. status'[q] = "over"
    BY <1>4 DEF LastResult, TypeOK
  <2>6. OneWordAfterEnd'
    BY <2>3, <2>4 DEF OneWordAfterEnd
  <2>7. SaidSoFar'
    BY <2>4, <2>5 DEF SaidSoFar, SaidBy
  <2>8. QED
    BY <2>2, <2>6, <2>7
<1>5. ASSUME NEW q \in Queries, LastEnd(q) PROVE LifecycleInv'
  <2> DEFINE id == idOf[q]
             mine == IF closed THEN "ended" ELSE "over"
  <2>1. PICK word \in Ends : Say(q, word)
    BY <1>5 DEF LastEnd
  <2>2. PICK s \in Finished :
          status' = [p \in Queries |-> IF p = q THEN mine
                                       ELSE IF p = holder[id] THEN s ELSE status[p]]
    BY <1>5 DEF LastEnd
  <2>3. status[q] = "ended" /\ holder' = [holder EXCEPT ![id] = NoQuery] /\ UNCHANGED <<closed, idOf>>
    BY <1>5 DEF LastEnd
  <2>4. TypeOK'
    BY <2>1, <2>2, <2>3, SayLemma DEF TypeOK, Finished
  <2>5. HoldersRun' /\ AcceptedHaveIds'
    <3>1. id \in Ids /\ status[q] # "running"
      BY <2>3 DEF AcceptedHaveIds
    <3>2. \A i \in Ids : holder'[i] = IF i = id THEN NoQuery ELSE holder[i]
      BY <2>3, <3>1 DEF TypeOK
    <3>3. \A p \in Queries : status'[p] = "running" <=> status[p] = "running" /\ p # holder[id]
      BY <2>2, <3>1 DEF Finished
    <3>4. ASSUME NEW p \in Queries, NEW i \in Ids
          PROVE  holder'[i] = p <=> status'[p] = "running" /\ idOf'[p] = i
      <4>1. holder[i] = p <=> status[p] = "running" /\ idOf[p] = i
        BY DEF HoldersRun
      <4>2. holder[id] = p <=> status[p] = "running" /\ idOf[p] = id
        BY <3>1 DEF HoldersRun
      <4>3. QED
        BY <2>3, <3>2, <3>3, <4>1, <4>2
    <3>5. \A p \in Queries : status'[p] # "new" => status[p] # "new"
      <4>1. \A p \in Queries : p = holder[id] => status[p] = "running"
        BY <3>1 DEF HoldersRun
      <4>2. QED
        BY <2>2, <2>3, <4>1
    <3>6. QED
      BY <2>3, <3>4, <3>5 DEF HoldersRun, AcceptedHaveIds
  <2>6. \A i \in DOMAIN said'[q] :
          said'[q][i] \in Ends => Len(said'[q]) <= IF closed THEN i ELSE i + 1
    <3>1. \A i \in DOMAIN said[q] : said[q][i] \in Ends => Len(said[q]) <= i
      BY <2>3 DEF SaidSoFar, SaidBy
    <3>2. CASE closed
      BY <2>1, <3>1, <3>2, SayLemma
    <3>3. CASE ~closed
      BY <1>0, <2>1, <3>1, <3>3, SayLemma
    <3>4. QED
      BY <3>2, <3>3
  <2>7. \A i \in DOMAIN said'[q] : i \in Nat /\ Len(said'[q]) \in Nat
    BY <2>4 DEF TypeOK
  <2>8. \A p \in Queries : p # q => said'[p] = said[p]
    BY <2>1, SayLemma
  <2>9. OneWordAfterEnd'
    BY <2>6, <2>7, <2>8 DEF OneWordAfterEnd
  <2>10. \A p \in Queries : p # q /\ p = holder[id] => status[p] = "running" /\ status'[p] \in Finished
    BY <2>2, <2>3 DEF HoldersRun, AcceptedHaveIds
  <2>11. \A p \in Queries : p # q /\ p # holder[id] => status'[p] = status[p]
    BY <2>2
  <2>12. status'[q] = mine
    BY <2>2
  <2>13. ASSUME NEW p \in Queries, p # q PROVE SaidBy(p)'
    BY <1>0, <2>8, <2>10, <2>11, <2>13 DEF SaidSoFar, SaidBy, Finished
  <2>14. SaidBy(q)'
    BY <2>6, <2>12 DEF SaidBy, Finished
  <2>15. SaidSoFar'
    BY <2>13, <2>14 DEF SaidSoFar, SaidBy
  <2>16. QED
    BY <2>4, <2>5, <2>9, <2>15
<1>6. CASE Close
  BY <1>6 DEF Close, TypeOK, HoldersRun, AcceptedHaveIds, OneWordAfterEnd, SaidSoFar, SaidBy
<1>7. CASE UNCHANGED vars
  BY <1>7 DEF vars, TypeOK, HoldersRun, AcceptedHaveIds, OneWordAfterEnd, SaidSoFar, SaidBy
<1>8. QED
  BY <1>1, <1>2, <1>3, <1>4, <1>5, <1>6, <1>7 DEF Next

(* A client that follows the lifecycle hears one word at most after the    *)
(* answer to a query, and an id is held by the query that runs under it.   *)
THEOREM LifecycleSafe == AbsentOK /\ Spec => [](HoldersRun /\ OneWordAfterEnd)
<1>1. LifecycleInv => HoldersRun /\ OneWordAfterEnd
  BY DEF LifecycleInv
<1>2. QED
  BY LifecycleInit, LifecycleStep, <1>1, PTL DEF Spec
=============================================================================
