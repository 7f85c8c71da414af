---------------------------- MODULE EventEmitter ----------------------------
(***************************************************************************)
(* The listeners of one event of a ventijs emitter (src/compat/events), and *)
(* the dispatches under way: emit calls the entries of the bucket it found  *)
(* when it began, each entry runs application code, and that code may       *)
(* register, remove and emit before it returns or throws.                  *)
(***************************************************************************)
EXTENDS Naturals, SequencesExt

CONSTANTS
    Handler,        \* the functions the application registers, none of which
                    \* has a property `listener` of its own
    NoHandler,      \* what an `on*` attribute reads when nothing is assigned
    MaxListeners,   \* bound: entries in the bucket
    MaxOnce,        \* bound: one-shot wrappers ever built
    MaxDepth        \* bound: nested dispatches

ASSUME EmitterAssumption ==
    /\ NoHandler \notin Handler
    /\ {MaxListeners, MaxOnce, MaxDepth} \subseteq Nat

VARIABLES
    listeners,      \* state.listeners[event], oldest entry first
    dispatches,     \* the calls of dispatchWith under way, outermost first:
                    \* what each still has to call after the running listener
    runs,           \* runs[id]: how often one-shot wrapper id called its handler
    assigned,       \* what the application last assigned to the attribute, if
                    \* it has not removed it through the emitter since
    foreign         \* the application passed the option `attribute` itself since
                    \* there was no attribute wrapper but an assigned one

attributes == <<assigned, foreign>>
vars == <<listeners, dispatches, runs, attributes>>

(* An entry is the handler itself ("plain"), a DOM wrapper around it, with   *)
(* the flag `attribute` or not, or a onceWrapper around one of the three,    *)
(* which hides the flag. Every onceWrapper is a function of its own, told    *)
(* apart by its id; the others have id 0.                                    *)
Entry ==
    [kind : {"plain", "dom", "attribute"}, handler : Handler, id : {0}]
        \cup [kind : {"once", "domOnce", "attributeOnce"}, handler : Handler,
              id : 1 .. MaxOnce]

isDomEntry(e) == e.kind \notin {"plain", "once"}
isAttribute(e) == e.kind = "attribute"
isOnce(e) == e.kind \in {"once", "domOnce", "attributeOnce"}

TypeOK ==
    /\ listeners \in Seq(Entry)
    /\ runs \in Seq(Nat)
    /\ assigned \in Handler \cup {NoHandler}
    /\ foreign \in BOOLEAN
    /\ dispatches \in Seq(Seq(Entry))

Init ==
    /\ listeners = <<>>
    /\ dispatches = <<>>
    /\ runs = <<>>
    /\ assigned = NoHandler
    /\ foreign = FALSE

-----------------------------------------------------------------------------
(* Registration and removal: each replaces the bucket by a new array.       *)

unsubscribeMatching(bucket, matches(_)) ==
    LET last == SelectLastInSeq(bucket, matches)
    IN  IF last = 0 THEN bucket ELSE RemoveAt(bucket, last)

(* The wrapper a registration builds, when it is one-shot.                  *)
onceWrapper(kind, h) == [kind |-> kind, handler |-> h, id |-> Len(runs) + 1]

HasRoom == Len(listeners) < MaxListeners

(* on, addListener, prependListener.                                        *)
On(h) ==
    /\ HasRoom
    /\ LET e == [kind |-> "plain", handler |-> h, id |-> 0]
       IN  listeners' \in {Append(listeners, e), <<e>> \o listeners}
    /\ UNCHANGED <<dispatches, runs, attributes>>

(* once, prependOnceListener, onceEvent.                                    *)
Once(h) ==
    /\ HasRoom
    /\ Len(runs) < MaxOnce
    /\ LET e == onceWrapper("once", h)
       IN  listeners' \in {Append(listeners, e), <<e>> \o listeners}
    /\ runs' = Append(runs, 0)
    /\ UNCHANGED <<dispatches, attributes>>

(* Mutant: off does not skip DOM wrappers.                                  *)
removeTagged_AnySurface(bucket, h) ==
    unsubscribeMatching(bucket, LAMBDA e : e.handler = h)

(* off, removeListener: the DOM surface is another one.                     *)
removeTagged(bucket, h) ==
    unsubscribeMatching(bucket, LAMBDA e : ~isDomEntry(e) /\ e.handler = h)

Off(h) ==
    /\ listeners' = removeTagged(listeners, h)
    /\ UNCHANGED <<dispatches, runs, attributes>>

HasAttribute(bucket) == \E e \in ToSet(bucket) : isAttribute(e)

(* off with a wrapper that rawListeners() gave: entry === handler, on every  *)
(* surface. (listeners() gives DOM wrappers too, but not those once wraps.) *)
OffListed ==
    /\ \E i \in DOMAIN listeners :
          listeners[i].kind # "plain" /\ listeners' = RemoveAt(listeners, i)
    /\ assigned' = IF HasAttribute(listeners') THEN assigned ELSE NoHandler
    /\ foreign' = (foreign /\ HasAttribute(listeners'))
    /\ UNCHANGED <<dispatches, runs>>

RemoveAll ==
    /\ listeners' = <<>>
    /\ assigned' = NoHandler /\ foreign' = FALSE
    /\ UNCHANGED <<dispatches, runs>>

(* Mutant: a onceWrapper around a DOM wrapper is not recognised.            *)
isDomListenerOf_NotUnwrapped(e, h) == e.kind = "dom" /\ e.handler = h

(* addEventListener and removeEventListener never mistake an attribute for  *)
(* a registration of theirs.                                                *)
isDomListenerOf(e, h) == isDomEntry(e) /\ e.handler = h /\ ~isAttribute(e)

domWrapper(h, once, attribute) ==
    IF once THEN onceWrapper(IF attribute THEN "attributeOnce" ELSE "domOnce", h)
            ELSE [kind |-> IF attribute THEN "attribute" ELSE "dom", handler |-> h, id |-> 0]

(* The options are the application's, which may pass `attribute` as well: a  *)
(* duplicate is then let in, and no other attribute wrapper makes way.       *)
AddEventListener(h, once, attribute) ==
    /\ HasRoom
    /\ once => Len(runs) < MaxOnce
    /\ attribute \/ ~ \E e \in ToSet(listeners) : isDomListenerOf(e, h)
    /\ listeners' = Append(listeners, domWrapper(h, once, attribute))
    /\ runs' = IF once THEN Append(runs, 0) ELSE runs
    /\ foreign' = (foreign \/ (attribute /\ ~once))
    /\ UNCHANGED <<dispatches, assigned>>

RemoveEventListener(h) ==
    /\ listeners' = unsubscribeMatching(listeners, LAMBDA e : isDomListenerOf(e, h))
    /\ UNCHANGED <<dispatches, runs, attributes>>

(* The setter of an `on*` attribute: NoHandler stands for any value that is *)
(* not a function.                                                          *)
SetAttribute(h) ==
    LET cleared == unsubscribeMatching(listeners, isAttribute)
    IN  /\ Len(cleared) < MaxListeners
        /\ listeners' = IF h = NoHandler THEN cleared
                        ELSE Append(cleared, domWrapper(h, FALSE, TRUE))
        /\ assigned' = h /\ foreign' = (foreign /\ HasAttribute(cleared))
        /\ UNCHANGED <<dispatches, runs>>

(* The getter.                                                              *)
findAttributeListener ==
    LET first == SelectInSeq(listeners, isAttribute)
    IN  IF first = 0 THEN NoHandler ELSE listeners[first].handler

-----------------------------------------------------------------------------
(* Dispatch.                                                                *)

(* Calling entry e leaves this bucket: a onceWrapper unsubscribes itself    *)
(* before it invokes the handler.                                           *)
BucketAtCall(e) ==
    IF isOnce(e) THEN unsubscribeMatching(listeners, LAMBDA f : f = e) ELSE listeners

Call(e) ==
    /\ listeners' = BucketAtCall(e)
    /\ runs' = IF isOnce(e) THEN [runs EXCEPT ![e.id] = @ + 1] ELSE runs
    /\ UNCHANGED attributes

(* emitEvent, from the main program or from the listener that is running.   *)
Emit ==
    /\ listeners # <<>>
    /\ Len(dispatches) < MaxDepth
    /\ dispatches' = Append(dispatches, Tail(listeners))
    /\ Call(Head(listeners))

(* The running listener returns: the next entry of the same array is called *)
(* or the dispatch is over and its caller goes on.                          *)
Return ==
    /\ dispatches # <<>>
    /\ LET rest == Last(dispatches)
       IN  IF rest # <<>>
           THEN /\ dispatches' = Append(Front(dispatches), Tail(rest))
                /\ Call(Head(rest))
           ELSE /\ dispatches' = Front(dispatches)
                /\ UNCHANGED <<listeners, runs, attributes>>

(* The running listener throws: the rest of the bucket is not called. The   *)
(* caller of emit is a listener that may catch the exception or throw too.  *)
(* An unhandled `error` event is such an exception in its emitter.          *)
Throw ==
    /\ dispatches # <<>>
    /\ dispatches' = Front(dispatches)
    /\ UNCHANGED <<listeners, runs, attributes>>

Next ==
    \/ \E h \in Handler :
          \/ On(h) \/ Once(h) \/ Off(h) \/ RemoveEventListener(h)
          \/ \E once, attribute \in BOOLEAN : AddEventListener(h, once, attribute)
    \/ \E h \in Handler \cup {NoHandler} : SetAttribute(h)
    \/ OffListed \/ RemoveAll
    \/ Emit \/ Return \/ Throw

Spec == Init /\ [][Next]_vars

-----------------------------------------------------------------------------
isRegistration(e) == e.kind \in {"dom", "domOnce"}

(* A handler has one DOM registration at most, whether one-shot or not, and  *)
(* whatever was registered and removed on the other surfaces or with the     *)
(* option `attribute`, which alone may double one (addEventListener).        *)
DomListenersUnique ==
    \A i, j \in DOMAIN listeners :
        isRegistration(listeners[i]) /\ isRegistration(listeners[j])
            /\ listeners[i].handler = listeners[j].handler => i = j

(* An `on*` attribute reads back what was last assigned to it and calls it    *)
(* once: off with a handler, removeEventListener and one-shot removals never *)
(* take its wrapper for an entry of theirs, although it carries the same     *)
(* handler. An attribute wrapper that did not come from an assignment voids  *)
(* this until none is left in its way.                                       *)
AttributeReadsBack ==
    ~foreign => /\ findAttributeListener = assigned
                /\ \A i, j \in DOMAIN listeners :
                      isAttribute(listeners[i]) /\ isAttribute(listeners[j]) => i = j

(* A handler registered with once runs at most once.                        *)
OnceRunsOnce == \A id \in DOMAIN runs : runs[id] <= 1
=============================================================================
