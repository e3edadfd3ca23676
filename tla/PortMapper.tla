------------------------------ MODULE PortMapper ------------------------------
(***************************************************************************)
(* The port mapper as the menus use it: findPublicAddress opens a mapper   *)
(* for no port, runs the main run loop until an error or an address is     *)
(* there, and closes it.  The run loop may call findPublicAddress again,   *)
(* with a mapper of its own, so `stack` holds the mappers that wait, the   *)
(* innermost last, and serviceCallback may be called for any of them.      *)
(*                                                                         *)
(* mDNSResponder is the environment: it sends words to each mapper's       *)
(* socket as the network changes, address 0 and errors included, or loses  *)
(* the connection.  desiredPublicPort is always 0 here, so no word turns   *)
(* into NATPortMappingUnsupported, and the public port stays 0.            *)
(***************************************************************************)
EXTENDS Integers, SequencesExt

CONSTANTS Mappers,      \* the mapper objects, used again once released
          Addresses,    \* public addresses
          Nil,          \* nil: address 0
          Waiting,      \* see AddressLookup
          MaxMail       \* bound on the unread words of one socket

ASSUME MapperAssumption ==
  /\ Nil \notin Addresses /\ Waiting \notin Addresses \cup {Nil}
  /\ MaxMail \in Nat \ {0}

\* What a socket delivers: a word, or the failure of the connection.
Words == [error : BOOLEAN, address : Addresses \cup {Nil}]
Lost == [error |-> TRUE, address |-> Waiting]
News == Words \cup {Lost}
Silence == [error |-> FALSE, address |-> Nil]     \* decides as little as address 0

VARIABLES mapper,       \* per mapper: its service and socket, error and publicAddress
          stack,        \* the mappers of the calls of findPublicAddress that wait
          result,       \* what the last call returned
          mail,         \* per mapper: what its socket has not delivered yet
          heard         \* history, per mapper: the last news it was delivered

vars == <<mapper, stack, result, mail, heard>>

TypeOK ==
  /\ mapper \in [Mappers -> [service : BOOLEAN, error : BOOLEAN,
                             address : Addresses \cup {Nil}]]
  /\ stack \in Seq(Mappers)
  /\ result \in Addresses \cup {Nil}
  /\ mail \in [Mappers -> Seq(News)]
  /\ heard \in [Mappers -> News]
-----------------------------------------------------------------------------
OnStack(m) == \E i \in DOMAIN stack : stack[i] = m
Fresh == [service |-> FALSE, error |-> FALSE, address |-> Nil]

\* The condition of waitTillOpened's loop, negated.
OpenedOrCutOff(p) == p.address # Nil \/ (p.error /\ ~p.service)
Opened(p) == p.error \/ p.address # Nil

\* The main run loop looks for work: at its base, or in the innermost wait.
Dispatching == stack # <<>> => ~Opened(mapper[Last(stack)])

\* priv_portMapStatus: an address is stored even if it comes with an error.
StatusKeepsAddress(p, word) ==
  [p EXCEPT !.error = word.error, !.address = IF word.address = Nil THEN @ ELSE word.address]
Status(p, word) == [p EXCEPT !.error = word.error, !.address = word.address]

\* priv_disconnect keeps the error; close clears it as well.
Disconnect(p) == IF p.service THEN [p EXCEPT !.service = FALSE, !.address = Nil] ELSE p
CloseIfNoError(p) == IF p.error THEN p ELSE [Disconnect(p) EXCEPT !.error = FALSE]
Close(p) == [Disconnect(p) EXCEPT !.error = FALSE]

\* serviceCallback: DNSServiceProcessResult calls portMapCallback with the
\* word, or fails, and then the connection is closed.
ServicedUnchecked(p, news) == Status(p, news)
Serviced(p, news) ==
  IF news = Lost THEN Disconnect(Status(p, [error |-> TRUE, address |-> Nil]))
  ELSE Status(p, news)

\* findPublicAddress up to the wait.  open may fail, before there is a
\* service or, closing it again, without a socket; then nothing waits.
FindPublicAddress(m) ==
  /\ Dispatching /\ ~OnStack(m)
  /\ \/ /\ mapper' = [mapper EXCEPT ![m] = [Fresh EXCEPT !.service = TRUE]]
        /\ stack' = Append(stack, m)
        /\ heard' = [heard EXCEPT ![m] = Silence]
        /\ mail' = [mail EXCEPT ![m] = <<>>]
        /\ UNCHANGED result
     \/ /\ mapper' = [mapper EXCEPT ![m] = Close([Fresh EXCEPT !.error = TRUE])]
        /\ result' = Nil
        /\ UNCHANGED <<stack, heard, mail>>

ServiceCallback(m) ==
  /\ Dispatching
  /\ mapper[m].service /\ mail[m] # <<>>
  /\ mapper' = [mapper EXCEPT ![m] = Serviced(@, Head(mail[m]))]
  /\ heard' = [heard EXCEPT ![m] = Head(mail[m])]
  /\ mail' = [mail EXCEPT ![m] = Tail(@)]
  /\ UNCHANGED <<stack, result>>

\* The wait for m is over: read the address unless there was an error, and
\* close, which drops what the socket still holds.
Leave(m) ==
  /\ Opened(mapper[m])
  /\ result' = IF mapper[m].error THEN Nil ELSE mapper[m].address
  /\ mapper' = [mapper EXCEPT ![m] = Close(@)]
  /\ mail' = [mail EXCEPT ![m] = <<>>]
  /\ UNCHANGED heard

Return == stack # <<>> /\ Leave(Last(stack)) /\ stack' = Front(stack)

\* mDNSResponder has news for a mapper.
Send(m, news) ==
  /\ mapper[m].service /\ Len(mail[m]) < MaxMail
  /\ \A i \in DOMAIN mail[m] : mail[m][i] # Lost
  /\ mail' = [mail EXCEPT ![m] = Append(@, news)]
  /\ UNCHANGED <<mapper, stack, result, heard>>
-----------------------------------------------------------------------------
Init ==
  /\ mapper = [m \in Mappers |-> Fresh]
  /\ stack = <<>>
  /\ result = Nil
  /\ mail = [m \in Mappers |-> <<>>]
  /\ heard = [m \in Mappers |-> Silence]

Next ==
  \/ \E m \in Mappers : FindPublicAddress(m) \/ ServiceCallback(m)
  \/ Return
  \/ \E m \in Mappers, news \in News : Send(m, news)

Spec == Init /\ [][Next]_vars

\* The run loop serves a socket that is ready again and again, and a wait that
\* is over returns.  mDNSResponder owes nothing.
FairSpec ==
  /\ Spec
  /\ \A m \in Mappers : SF_vars(ServiceCallback(m))
  /\ WF_vars(Return)
-----------------------------------------------------------------------------
Word(p) == IF p.error THEN Nil ELSE IF p.address = Nil THEN Waiting ELSE p.address

Lookup == INSTANCE AddressLookup WITH
  words <- [i \in DOMAIN stack |-> Word(mapper[stack[i]])]

\* Calls of findPublicAddress nest, each waits for its own word, and a word
\* that reaches an outer call early keeps until the inner ones have returned.
LookupImplemented == Lookup!FairSpec

\* When findPublicAddress returns, nothing of its mapper is left: neither an
\* open service, which would keep mDNSResponder mapping, nor a socket whose
\* callback would later reach a mapper nobody waits for.
NothingLeft ==
  \A m \in Mappers : ~OnStack(m) =>
    ~mapper[m].service /\ ~mapper[m].error /\ mapper[m].address = Nil

Says(news) == IF news = Lost \/ news.error THEN Nil ELSE news.address

\* A call returns what the last news for its mapper said, also if an outer
\* call had an older address while it was waiting for an inner one.
LatestWord ==
  [][\A m \in Mappers : OnStack(m) /\ ~OnStack(m)' => result' = Says(heard[m])]_vars

Latest(m) == IF mail[m] = <<>> THEN heard[m] ELSE Last(mail[m])
Decisive(news) == news.error \/ news.address # Nil
Answered == \A m \in Mappers : OnStack(m) => Decisive(Latest(m))

\* The main thread hangs in waitTillOpened only on a silent responder: once the
\* latest news for every waiting mapper is an address or an error, read or still
\* in its socket, all the calls return.
HangsOnlyOnResponder == <>[]Answered => <>[](stack = <<>>)
=============================================================================
