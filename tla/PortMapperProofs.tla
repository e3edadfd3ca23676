--------------------------- MODULE PortMapperProofs ---------------------------
(***************************************************************************)
(* findPublicAddress leaves nothing behind, returns the latest word and    *)
(* implements the lookup the menus count on, for any mappers, addresses    *)
(* and number of unread words.                                             *)
(*                                                                         *)
(* All of it rests on the calls being nested: no mapper waits twice, one   *)
(* that does not wait is closed, and one that does has taken in exactly    *)
(* what its socket delivered last.                                         *)
(***************************************************************************)
EXTENDS PortMapper, StackLemmas, TLAPS

Mapper == [service : BOOLEAN, error : BOOLEAN, address : Addresses \cup {Nil}]

Typed ==
  /\ mapper \in [Mappers -> Mapper]
  /\ stack \in Seq(Mappers)
  /\ mail \in [Mappers -> Seq(News)]
  /\ heard \in [Mappers -> News]

\* Each call has a mapper of its own.
Apart == \A i, j \in DOMAIN stack : stack[i] = stack[j] => i = j

\* The addresses go with the service.
Released == \A m \in Mappers : ~mapper[m].service => mapper[m].address = Nil

\* A mapper reflects the last news it was delivered.
Reflects(p, news) ==
  IF news = Lost THEN p.error
  ELSE p.error = news.error /\ p.address = news.address
UpToDate == \A m \in Mappers : OnStack(m) => Reflects(mapper[m], heard[m])

CallsInv == Typed /\ Apart /\ Released /\ NothingLeft /\ UpToDate

LEMMA SilenceIsNews == Silence \in News /\ Silence # Lost
  BY MapperAssumption DEF Silence, News, Words, Lost

\* What a mapper holds after serviceCallback and after close.
LEMMA ServicedMapper ==
  ASSUME NEW p \in Mapper, NEW news \in News
  PROVE  /\ Serviced(p, news) \in Mapper
         /\ Reflects(Serviced(p, news), news)
         /\ p.service /\ ~Serviced(p, news).service => Serviced(p, news).address = Nil
<1>1. CASE news = Lost
  BY <1>1 DEF Mapper, Serviced, Status, Disconnect, Reflects
<1>2. CASE news # Lost
  BY <1>2 DEF Mapper, Serviced, Status, Reflects, News, Words
<1> QED BY <1>1, <1>2

LEMMA ClosedMapper ==
  ASSUME NEW p \in Mapper, ~p.service => p.address = Nil
  PROVE  /\ Close(p) \in Mapper
         /\ ~Close(p).service /\ ~Close(p).error /\ Close(p).address = Nil
  BY DEF Mapper, Close, Disconnect

LEMMA CallsInit == Init => CallsInv
  BY SilenceIsNews
     DEF Init, CallsInv, Typed, Mapper, Apart, Released, NothingLeft, UpToDate,
         OnStack, Fresh

\* A call pushes its mapper, which was not waiting, and waits with it open.
LEMMA FindStep ==
  ASSUME CallsInv, NEW m \in Mappers, FindPublicAddress(m)
  PROVE  CallsInv'
<1> USE DEF CallsInv, Typed
<1>1. CASE /\ mapper' = [mapper EXCEPT ![m] = [Fresh EXCEPT !.service = TRUE]]
           /\ stack' = Append(stack, m)
           /\ heard' = [heard EXCEPT ![m] = Silence]
           /\ mail' = [mail EXCEPT ![m] = <<>>]
  <2>1. [Fresh EXCEPT !.service = TRUE] \in Mapper
    BY DEF Fresh, Mapper
  <2>2. Typed'
    BY <1>1, <2>1, SilenceIsNews
  <2>3. /\ DOMAIN stack' = DOMAIN stack \cup {Len(stack) + 1}
        /\ \A i \in DOMAIN stack : stack'[i] = stack[i]
        /\ stack'[Len(stack) + 1] = m
    BY <1>1
  <2>4. Apart'
    BY <2>3 DEF Apart, OnStack, FindPublicAddress
  <2>5. \A n \in Mappers : OnStack(n)' <=> OnStack(n) \/ n = m
    BY <2>3 DEF OnStack
  <2>6. Released' /\ NothingLeft' /\ UpToDate'
    BY <1>1, <2>5, SilenceIsNews
       DEF Released, NothingLeft, UpToDate, Reflects, Fresh, Silence
  <2> QED BY <2>2, <2>4, <2>6
<1>2. CASE /\ mapper' = [mapper EXCEPT ![m] = Close([Fresh EXCEPT !.error = TRUE])]
           /\ UNCHANGED <<stack, heard, mail>>
  <2>1. [Fresh EXCEPT !.error = TRUE] \in Mapper
    BY DEF Fresh, Mapper
  <2>2. /\ Close([Fresh EXCEPT !.error = TRUE]) \in Mapper
        /\ ~Close([Fresh EXCEPT !.error = TRUE]).service
        /\ ~Close([Fresh EXCEPT !.error = TRUE]).error
        /\ Close([Fresh EXCEPT !.error = TRUE]).address = Nil
    BY <2>1, ClosedMapper DEF Fresh
  <2> QED
    BY <1>2, <2>2
       DEF Apart, Released, NothingLeft, UpToDate, OnStack, FindPublicAddress
<1> QED BY <1>1, <1>2 DEF FindPublicAddress

\* Only the mapper of a waiting call is ever served.
LEMMA ServiceStep ==
  ASSUME CallsInv, NEW m \in Mappers, ServiceCallback(m)
  PROVE  CallsInv' /\ OnStack(m)
<1> USE DEF CallsInv, Typed
<1>1. OnStack(m)
  BY DEF ServiceCallback, NothingLeft
<1>2. Head(mail[m]) \in News /\ Tail(mail[m]) \in Seq(News)
  BY DEF ServiceCallback
<1>3. mapper[m] \in Mapper /\ mapper[m].service
  BY DEF ServiceCallback
<1>4. Typed'
  BY <1>2, <1>3, ServicedMapper DEF ServiceCallback
<1>5. \A n \in Mappers : OnStack(n)' <=> OnStack(n)
  BY DEF OnStack, ServiceCallback
<1>6. Apart' /\ Released' /\ NothingLeft' /\ UpToDate'
  BY <1>1, <1>2, <1>3, <1>5, ServicedMapper
     DEF Apart, Released, NothingLeft, UpToDate, ServiceCallback
<1> QED BY <1>1, <1>4, <1>6

\* The innermost call is over: its mapper is closed and nobody else's.
LEMMA ReturnStep ==
  ASSUME CallsInv, Return
  PROVE  /\ CallsInv'
         /\ \A n \in Mappers : OnStack(n)' <=> OnStack(n) /\ n # Last(stack)
<1> USE DEF CallsInv, Typed
<1> DEFINE m == Last(stack)
<1>1. /\ stack # <<>> /\ stack' = Front(stack)
      /\ mapper' = [mapper EXCEPT ![m] = Close(@)]
      /\ mail' = [mail EXCEPT ![m] = <<>>]
      /\ heard' = heard
  BY DEF Return, Leave
<1>2. /\ m \in Mappers /\ m = stack[Len(stack)]
      /\ DOMAIN stack = 1..Len(stack) /\ Len(stack) \in Nat \ {0}
      /\ stack' \in Seq(Mappers) /\ DOMAIN stack' = 1..(Len(stack) - 1)
      /\ \A i \in DOMAIN stack' : stack'[i] = stack[i]
  BY <1>1, FrontAndLast
<1>3. /\ Close(mapper[m]) \in Mapper /\ ~Close(mapper[m]).service
      /\ ~Close(mapper[m]).error /\ Close(mapper[m]).address = Nil
  BY <1>2, ClosedMapper DEF Released
<1>4. Typed'
  BY <1>1, <1>2, <1>3
<1>6. Apart'
  BY <1>2 DEF Apart
<1>7. \A n \in Mappers : OnStack(n)' <=> OnStack(n) /\ n # m
  <2> SUFFICES ASSUME NEW n \in Mappers
               PROVE  OnStack(n)' <=> OnStack(n) /\ n # m
    OBVIOUS
  <2>1. ASSUME NEW i \in DOMAIN stack', stack'[i] = n
        PROVE  OnStack(n) /\ n # m
    <3>1. i \in DOMAIN stack /\ i # Len(stack) /\ stack[i] = n
      BY <1>2, <2>1
    <3>2. Len(stack) \in DOMAIN stack
      BY <1>2
    <3> HIDE DEF m
    <3> QED BY <1>2, <3>1, <3>2 DEF Apart, OnStack
  <2>2. ASSUME NEW i \in DOMAIN stack, stack[i] = n, n # m
        PROVE  OnStack(n)'
    <3>1. i \in DOMAIN stack' /\ stack'[i] = n
      BY <1>2, <2>2
    <3> QED BY <3>1 DEF OnStack
  <2> QED BY <2>1, <2>2 DEF OnStack
<1>8. Released' /\ NothingLeft' /\ UpToDate'
  BY <1>1, <1>2, <1>3, <1>7 DEF Released, NothingLeft, UpToDate
<1> QED BY <1>4, <1>6, <1>7, <1>8

LEMMA SendStep ==
  ASSUME CallsInv, NEW m \in Mappers, NEW news \in News, Send(m, news)
  PROVE  CallsInv'
  BY DEF CallsInv, Typed, Send, Apart, Released, NothingLeft, UpToDate, OnStack

LEMMA CallsStep ==
  ASSUME CallsInv, [Next]_vars
  PROVE  CallsInv'
<1>1. CASE UNCHANGED vars
  BY <1>1 DEF vars, CallsInv, Typed, Apart, Released, NothingLeft, UpToDate, OnStack
<1> QED
  BY <1>1, FindStep, ServiceStep, ReturnStep, SendStep DEF Next

LEMMA CallsNest == Spec => []CallsInv
  BY CallsInit, CallsStep, PTL DEF Spec

\* A mapper nobody waits for is closed, without service, error or address
\* (findPublicAddress's close, also after a failed open).
THEOREM NothingIsLeft == Spec => []NothingLeft
  BY CallsNest, PTL DEF CallsInv

ResultTyped == result \in Addresses \cup {Nil}

LEMMA ResultStep ==
  ASSUME CallsInv, ResultTyped, [Next]_vars
  PROVE  ResultTyped'
<1> USE DEF ResultTyped
<1>1. CASE Return
  <2>1. Last(stack) \in Mappers /\ mapper[Last(stack)] \in Mapper
    BY <1>1, FrontAndLast DEF CallsInv, Typed, Return
  <2>2. result' \in {Nil, mapper[Last(stack)].address}
    BY <1>1 DEF Return, Leave
  <2> QED BY <2>1, <2>2 DEF Mapper
<1>2. ASSUME NEW m \in Mappers, FindPublicAddress(m)
      PROVE  result' \in {result, Nil}
  BY <1>2 DEF FindPublicAddress
<1> QED BY <1>1, <1>2 DEF Next, ServiceCallback, Send, vars

\* A mapper holds no half of a word, a socket delivers only news, and
\* findPublicAddress returns an address or nil, never the mark of a call that
\* still waits.
THEOREM MapperTypes == Spec => []TypeOK
<1>1. Init => ResultTyped
  BY DEF Init, ResultTyped
<1>2. CallsInv /\ ResultTyped => TypeOK
  BY DEF CallsInv, ResultTyped, Typed, TypeOK, Mapper
<1> QED BY <1>1, <1>2, ResultStep, CallsNest, PTL DEF Spec

LEMMA OthersStay ==
  ASSUME CallsInv, NEW m \in Mappers, OnStack(m), [Next]_vars, ~Return
  PROVE  OnStack(m)'
<1>1. CASE stack' = stack
  BY <1>1 DEF OnStack
<1>2. ASSUME NEW n \in Mappers, stack' = Append(stack, n)
      PROVE  OnStack(m)'
  <2>1. PICK i \in DOMAIN stack : stack[i] = m
    BY DEF OnStack
  <2>2. i \in DOMAIN stack' /\ stack'[i] = m
    BY <1>2, <2>1 DEF CallsInv, Typed
  <2> QED BY <2>2 DEF OnStack
<1> QED
  BY <1>1, <1>2 DEF Next, FindPublicAddress, ServiceCallback, Send, vars

\* What findPublicAddress returns is what the last news for its mapper said.
THEOREM ReturnsLatestWord == Spec => LatestWord
<1>1. ASSUME CallsInv, [Next]_vars, NEW m \in Mappers, OnStack(m), ~OnStack(m)'
      PROVE  result' = Says(heard[m])
  <2>1. Return
    BY <1>1, OthersStay
  <2>2. m = Last(stack)
    BY <1>1, <2>1, ReturnStep
  <2>3. result' = IF mapper[m].error THEN Nil ELSE mapper[m].address
    BY <2>1, <2>2 DEF Return, Leave
  <2>4. Reflects(mapper[m], heard[m])
    BY <1>1 DEF CallsInv, UpToDate
  <2> QED BY <2>3, <2>4 DEF Reflects, Says, Lost
<1>2. CallsInv /\ [Next]_vars =>
        [\A m \in Mappers : OnStack(m) /\ ~OnStack(m)' => result' = Says(heard[m])]_vars
  BY <1>1
<1> QED BY <1>2, CallsNest, PTL DEF Spec, LatestWord
-----------------------------------------------------------------------------
(***************************************************************************)
(* The lookup: what AddressLookup sees of a state is the word of each      *)
(* waiting mapper, and each step is one of its steps or none.              *)
(***************************************************************************)
WordsOf(calls, state) == [i \in DOMAIN calls |-> Word(state[calls[i]])]

LEMMA WordTyped ==
  ASSUME NEW p \in Mapper
  PROVE  /\ Word(p) \in Lookup!Words
         /\ Word(p) = Waiting <=> ~Opened(p)
  BY MapperAssumption DEF Mapper, Word, Opened, Lookup!Words

LEMMA WordsTyped ==
  ASSUME NEW calls \in Seq(Mappers), NEW state \in [Mappers -> Mapper]
  PROVE  /\ WordsOf(calls, state) \in Seq(Lookup!Words)
         /\ Len(WordsOf(calls, state)) = Len(calls)
         /\ \A i \in 1..Len(calls) : WordsOf(calls, state)[i] = Word(state[calls[i]])
         /\ WordsOf(calls, state) = <<>> <=> calls = <<>>
<1>1. Len(calls) \in Nat /\ DOMAIN calls = 1..Len(calls)
  BY LenProperties
<1>2. \A i \in 1..Len(calls) : Word(state[calls[i]]) \in Lookup!Words
  BY <1>1, WordTyped
<1>3. /\ WordsOf(calls, state) \in Seq(Lookup!Words)
      /\ Len(WordsOf(calls, state)) = Len(calls)
  BY <1>1, <1>2 DEF WordsOf
<1>4. \A i \in 1..Len(calls) : WordsOf(calls, state)[i] = Word(state[calls[i]])
  BY <1>1 DEF WordsOf
<1> QED BY <1>1, <1>3, <1>4, EmptySeq

\* The run loop is served while the innermost call has no word.
LEMMA PendingWords ==
  ASSUME CallsInv, Dispatching, stack # <<>>
  PROVE  WordsOf(stack, mapper)[Len(stack)] = Waiting
<1>1. stack \in Seq(Mappers) /\ mapper \in [Mappers -> Mapper]
  BY DEF CallsInv, Typed
<1>2. /\ Last(stack) \in Mappers /\ Last(stack) = stack[Len(stack)]
      /\ Len(stack) \in Nat \ {0}
  BY <1>1, FrontAndLast
<1>3. Word(mapper[Last(stack)]) = Waiting
  BY <1>1, <1>2, WordTyped DEF Dispatching
<1>4. WordsOf(stack, mapper)[Len(stack)] = Word(mapper[stack[Len(stack)]])
  BY <1>1, <1>2, WordsTyped
<1> QED BY <1>2, <1>3, <1>4

\* A step that opens a mapper asks.
LEMMA FindAsks ==
  ASSUME CallsInv, CallsInv', NEW m \in Mappers, FindPublicAddress(m)
  PROVE  \/ WordsOf(stack, mapper)' = WordsOf(stack, mapper)
         \/ WordsOf(stack, mapper)' = Append(WordsOf(stack, mapper), Waiting)
<1> DEFINE before == WordsOf(stack, mapper)
           after == WordsOf(stack', mapper')
<1>1. /\ stack \in Seq(Mappers) /\ stack' \in Seq(Mappers)
      /\ mapper \in [Mappers -> Mapper] /\ mapper' \in [Mappers -> Mapper]
  BY DEF CallsInv, Typed
<1>2. \A i \in 1..Len(stack) : stack[i] \in Mappers /\ stack[i] # m
  BY <1>1 DEF FindPublicAddress, OnStack
<1>3. CASE /\ mapper' = [mapper EXCEPT ![m] = [Fresh EXCEPT !.service = TRUE]]
           /\ stack' = Append(stack, m)
  <2>1. /\ Len(stack') = Len(stack) + 1 /\ stack'[Len(stack) + 1] = m
        /\ \A i \in 1..Len(stack) : stack'[i] = stack[i]
    BY <1>1, <1>3, AppendProperties
  <2>2. Word(mapper'[m]) = Waiting /\ Waiting \in Lookup!Words
    BY <1>1, <1>3 DEF Word, Fresh, Lookup!Words
  <2>3. /\ after \in Seq(Lookup!Words) /\ Len(after) = Len(stack) + 1
        /\ \A i \in 1..Len(stack) + 1 : after[i] = Word(mapper'[stack'[i]])
    BY <1>1, <2>1, WordsTyped
  <2>4. /\ before \in Seq(Lookup!Words) /\ Len(before) = Len(stack)
        /\ \A i \in 1..Len(stack) : before[i] = Word(mapper[stack[i]])
    BY <1>1, WordsTyped
  <2>5. \A i \in 1..Len(stack) : after[i] = before[i]
    <3> SUFFICES ASSUME NEW i \in 1..Len(stack) PROVE after[i] = before[i]
      OBVIOUS
    <3>1. stack'[i] = stack[i] /\ stack[i] \in Mappers /\ stack[i] # m
      BY <1>2, <2>1
    <3>2. mapper'[stack[i]] = mapper[stack[i]]
      BY <1>1, <1>3, <3>1
    <3>3. i \in 1..Len(stack) + 1
      BY <1>1, LenProperties
    <3> QED BY <2>3, <2>4, <3>1, <3>2, <3>3
  <2>6. /\ Append(before, Waiting) \in Seq(Lookup!Words)
        /\ Len(Append(before, Waiting)) = Len(stack) + 1
        /\ \A i \in 1..Len(stack) : Append(before, Waiting)[i] = before[i]
        /\ Append(before, Waiting)[Len(stack) + 1] = Waiting
    BY <2>2, <2>4, AppendProperties
  <2>7. after[Len(stack) + 1] = Waiting
    BY <1>1, <2>1, <2>2, <2>3, LenProperties
  <2>8. \A i \in 1..Len(after) : after[i] = Append(before, Waiting)[i]
    BY <1>1, <2>3, <2>5, <2>6, <2>7, LenProperties
  <2>9. after = Append(before, Waiting)
    BY <2>3, <2>6, <2>8, SeqEqual
  <2> QED BY <2>9
<1>4. CASE /\ \A n \in Mappers \ {m} : mapper'[n] = mapper[n]
           /\ stack' = stack
  <2>1. \A i \in 1..Len(stack) : after[i] = before[i]
    BY <1>1, <1>2, <1>4, WordsTyped
  <2>2. after = before
    BY <1>1, <1>4, <2>1, WordsTyped, SeqEqual
  <2> QED BY <2>2
<1> QED BY <1>1, <1>3, <1>4 DEF FindPublicAddress

\* One that serves a socket replaces the word of one call that waits.
LEMMA ServiceHears ==
  ASSUME CallsInv, CallsInv', NEW m \in Mappers, ServiceCallback(m)
  PROVE  \E i \in 1..Len(stack), word \in Lookup!Words :
           WordsOf(stack, mapper)' = [WordsOf(stack, mapper) EXCEPT ![i] = word]
<1> DEFINE before == WordsOf(stack, mapper)
           after == WordsOf(stack', mapper')
<1>1. /\ stack \in Seq(Mappers) /\ stack' = stack
      /\ mapper \in [Mappers -> Mapper] /\ mapper' \in [Mappers -> Mapper]
      /\ \A n \in Mappers \ {m} : mapper'[n] = mapper[n]
  BY DEF CallsInv, Typed, ServiceCallback
<1>2. /\ before \in Seq(Lookup!Words) /\ Len(before) = Len(stack)
      /\ \A i \in 1..Len(stack) : before[i] = Word(mapper[stack[i]])
  BY <1>1, WordsTyped
<1>3. /\ after \in Seq(Lookup!Words) /\ Len(after) = Len(stack)
      /\ \A i \in 1..Len(stack) : after[i] = Word(mapper'[stack[i]])
  BY <1>1, WordsTyped
<1>4. PICK k \in DOMAIN stack : stack[k] = m
  BY ServiceStep DEF OnStack
<1>5. k \in 1..Len(stack) /\ after[k] \in Lookup!Words
  BY <1>1, <1>3, <1>4, LenProperties, ElementOfSeq
<1>6. \A i \in 1..Len(stack) : i # k => after[i] = before[i]
  <2> SUFFICES ASSUME NEW i \in 1..Len(stack), i # k PROVE after[i] = before[i]
    OBVIOUS
  <2>1. stack[i] \in Mappers \ {m}
    BY <1>1, <1>4, LenProperties DEF CallsInv, Apart
  <2> QED BY <1>1, <1>2, <1>3, <2>1
<1>7. after = [before EXCEPT ![k] = after[k]]
  BY <1>2, <1>3, <1>5, <1>6, ExceptSeq, SeqEqual
<1> QED BY <1>5, <1>7

\* One that returns takes the innermost word off, which is there.
LEMMA ReturnTakesOff ==
  ASSUME CallsInv, CallsInv', Return
  PROVE  /\ WordsOf(stack, mapper) # <<>>
         /\ WordsOf(stack, mapper)[Len(WordsOf(stack, mapper))] # Waiting
         /\ WordsOf(stack, mapper)' =
              SubSeq(WordsOf(stack, mapper), 1, Len(WordsOf(stack, mapper)) - 1)
<1> DEFINE before == WordsOf(stack, mapper)
           after == WordsOf(stack', mapper')
           m == Last(stack)
<1>1. /\ stack \in Seq(Mappers) /\ stack # <<>>
      /\ stack' = Front(stack) /\ Opened(mapper[m])
      /\ mapper \in [Mappers -> Mapper] /\ mapper' \in [Mappers -> Mapper]
      /\ \A n \in Mappers \ {m} : mapper'[n] = mapper[n]
  BY DEF CallsInv, Typed, Return, Leave
<1>2. /\ m \in Mappers /\ m = stack[Len(stack)]
      /\ stack' \in Seq(Mappers) /\ Len(stack') = Len(stack) - 1
      /\ \A i \in 1..(Len(stack) - 1) : stack'[i] = stack[i]
  BY <1>1, FrontAndLast
<1>3. DOMAIN stack = 1..Len(stack) /\ Len(stack) \in Nat \ {0}
  BY <1>1, FrontAndLast
<1> HIDE DEF m
<1>4. /\ before \in Seq(Lookup!Words) /\ Len(before) = Len(stack) /\ before # <<>>
      /\ \A i \in 1..Len(stack) : before[i] = Word(mapper[stack[i]])
  BY <1>1, WordsTyped
<1>5. before[Len(before)] # Waiting
  BY <1>1, <1>2, <1>3, <1>4, WordTyped
<1>6. \A i \in 1..(Len(stack) - 1) : stack[i] \in Mappers \ {m}
  <2> SUFFICES ASSUME NEW i \in 1..(Len(stack) - 1) PROVE stack[i] \in Mappers \ {m}
    OBVIOUS
  <2> DEFINE n == Len(stack)
  <2>1. DOMAIN stack = 1..n /\ n \in Nat \ {0} /\ i \in 1..(n - 1)
    BY <1>3
  <2> HIDE DEF n
  <2>2. i \in 1..n /\ n \in 1..n /\ i # n
    BY <2>1
  <2>3. i \in DOMAIN stack /\ n \in DOMAIN stack /\ i # n
    BY <2>1, <2>2, Zenon
  <2> QED BY <1>1, <1>2, <2>3 DEF CallsInv, Apart, n
<1>7. /\ after \in Seq(Lookup!Words) /\ Len(after) = Len(stack')
      /\ \A i \in 1..Len(stack') : after[i] = Word(mapper'[stack'[i]])
  BY <1>1, <1>2, WordsTyped
<1>8. \A i \in 1..(Len(stack) - 1) : after[i] = before[i]
  <2> SUFFICES ASSUME NEW i \in 1..(Len(stack) - 1) PROVE after[i] = before[i]
    OBVIOUS
  <2>1. i \in 1..Len(stack) /\ i \in 1..Len(stack')
    BY <1>2, <1>3
  <2>2. mapper'[stack'[i]] = mapper[stack[i]]
    BY <1>1, <1>2, <1>6
  <2> QED BY <1>4, <1>7, <2>1, <2>2
<1>9. /\ Front(before) \in Seq(Lookup!Words) /\ Len(Front(before)) = Len(stack) - 1
      /\ \A i \in 1..(Len(stack) - 1) : Front(before)[i] = before[i]
  BY <1>4, FrontAndLast
<1>10. after = Front(before)
  BY <1>2, <1>7, <1>8, <1>9, SeqEqual
<1> QED BY <1>4, <1>5, <1>10 DEF Front

\* The steps of AddressLookup, for words `before` and `after` a step.
LookupStep(before, after) ==
  LET pending == before # <<>> /\ before[Len(before)] = Waiting IN
  \/ after = before
  \/ (before = <<>> \/ pending) /\ after = Append(before, Waiting)
  \/ /\ pending
     /\ \E i \in DOMAIN before, word \in Lookup!Words : after = [before EXCEPT ![i] = word]
  \/ /\ before # <<>> /\ before[Len(before)] # Waiting
     /\ after = SubSeq(before, 1, Len(before) - 1)

LEMMA StepsMap ==
  ASSUME CallsInv, CallsInv', [Next]_vars
  PROVE  LookupStep(WordsOf(stack, mapper), WordsOf(stack, mapper)')
<1> DEFINE before == WordsOf(stack, mapper)
<1>1. /\ before \in Seq(Lookup!Words) /\ Len(before) = Len(stack)
      /\ stack = <<>> <=> before = <<>>
  BY WordsTyped DEF CallsInv, Typed
<1>2. ASSUME NEW m \in Mappers, FindPublicAddress(m)
      PROVE  LookupStep(before, before')
  <2>1. before = <<>> \/ before[Len(before)] = Waiting
    BY <1>1, <1>2, PendingWords DEF FindPublicAddress
  <2>2. before' = before \/ before' = Append(before, Waiting)
    BY <1>2, FindAsks
  <2> HIDE DEF before
  <2> QED BY <2>1, <2>2 DEF LookupStep
<1>3. ASSUME NEW m \in Mappers, ServiceCallback(m)
      PROVE  LookupStep(before, before')
  <2>1. PICK i \in 1..Len(stack), word \in Lookup!Words :
          before' = [before EXCEPT ![i] = word]
    BY <1>3, ServiceHears
  <2>2. i \in DOMAIN before /\ before # <<>>
    BY <1>1, <2>1, LenProperties, EmptySeq
  <2>3. before[Len(before)] = Waiting
    BY <1>1, <1>3, <2>2, PendingWords DEF ServiceCallback
  <2> HIDE DEF before
  <2> QED BY <2>1, <2>2, <2>3 DEF LookupStep
<1>4. CASE Return
  <2>1. /\ before # <<>> /\ before[Len(before)] # Waiting
        /\ before' = SubSeq(before, 1, Len(before) - 1)
    BY <1>4, ReturnTakesOff
  <2>2. \A b, a : b # <<>> /\ b[Len(b)] # Waiting /\ a = SubSeq(b, 1, Len(b) - 1)
                   => LookupStep(b, a)
    BY DEF LookupStep
  <2> QED BY <2>1, <2>2, Zenon
<1>5. ASSUME mapper' = mapper, stack' = stack
      PROVE  LookupStep(before, before')
  BY <1>5 DEF WordsOf, LookupStep
<1> QED BY <1>2, <1>3, <1>4, <1>5 DEF Next, Send, vars

\* The mappers implement the lookup: calls nest, words reach only calls that
\* wait, and only the innermost one that has its word returns.
THEOREM ImplementsLookup == Spec => Lookup!Spec
<1>1. Init => Lookup!Init
  BY DEF Init, Lookup!Init
<1>2. CallsInv /\ CallsInv' /\ [Next]_vars =>
        [Lookup!Next]_([i \in DOMAIN stack |-> Word(mapper[stack[i]])])
  BY StepsMap
     DEF LookupStep, WordsOf, Lookup!Next, Lookup!Ask, Lookup!Hear, Lookup!Return,
         Lookup!Pending, Lookup!Innermost
<1> QED BY <1>1, <1>2, CallsNest, PTL DEF Spec, Lookup!Spec
=============================================================================
