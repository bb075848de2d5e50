------------------------- MODULE ExternalProcessors -------------------------
(***************************************************************************)
(* pipeline/src/extproc: the two services that send an object's crop to an *)
(* HTTP endpoint on a detached thread and publish what it answers.  The    *)
(* one of crop_objects ("crop", ext_proc_svc.cpp) throttles its calls per  *)
(* object; the one of frame_events ("frame",                               *)
(* frame_events_ext_proc_service.cpp) does not, but keeps the answers to   *)
(* write them over the object's text in later frames.  A thread holds a    *)
(* reference to the service's state and outlives the service.              *)
(***************************************************************************)
EXTENDS ProbeConfig, FiniteSets

VARIABLES now,               \* the steady clock
          up,                \* services with an encoder
          last_processed_ns, \* "crop": object -> time of its last call
          calls,             \* what the detached threads are at
          osd_overrides,     \* "frame": slot, id -> text
          sight,             \* history: slot, id -> when it was last in sight, and
                             \*   since when it has not been away for longer than Away
          shown              \* history: slot -> texts written over its last frame

vars == <<now, up, last_processed_ns, calls, osd_overrides, sight, shown>>

Services == {"crop", "frame"}
Threads == 1 .. MaxCalls
Objects == Slots \X (Ids \ {Untracked}) \X Kinds     \* source, tracker id, label

(* A thread waits for the endpoint, and then for the broker. *)
Call == [service : Services, object : Objects, at : Nat, stage : {"http", "publish"}]

(* A text stands for what the endpoint said of a crop: the label the object  *)
(* then had and the time the crop was taken, and when it was last of use.    *)
Text == [kind : Kinds, taken : Nat, touched : Nat]

TypeOK ==
  /\ now \in Nat
  /\ up \subseteq Services
  /\ DOMAIN last_processed_ns \subseteq Objects
  /\ \A x \in DOMAIN last_processed_ns : last_processed_ns[x] \in 0 .. now
  /\ calls \in [Threads -> Call \cup {NoCall}]
  /\ DOMAIN osd_overrides \subseteq Slots \X Ids
  /\ \A k \in DOMAIN osd_overrides : /\ osd_overrides[k] \in Text
                                     /\ osd_overrides[k].touched <= now

(* The services belong to probe handlers of different kinds and share        *)
(* nothing: a behaviour follows one of them.                                 *)
Init ==
  /\ now = 1
  /\ up \in {{v} : v \in Services}
  /\ last_processed_ns = [x \in {} |-> 0]
  /\ calls = [t \in Threads |-> NoCall]
  /\ osd_overrides = [k \in {} |-> NoCall]
  /\ sight = [k \in Slots \X Ids |-> [last |-> 0, birth |-> 0]]
  /\ shown = [s \in Slots |-> {}]
-----------------------------------------------------------------------------
Set(f, k, v) == [i \in DOMAIN f \cup {k} |-> IF i = k THEN v ELSE f[i]]

(* The crop is encoded and handed to a new thread, or encoding failed. *)
Launch(service, x) ==
  \/ \E t \in Threads :
       /\ calls[t] = NoCall /\ \A u \in 1 .. t - 1 : calls[u] # NoCall
       /\ calls' = [calls EXCEPT ![t] = [service |-> service, object |-> x, at |-> now,
                                         stage |-> "http"]]
  \/ UNCHANGED calls

(* Mutant of should_process: the time of the first call stays. *)
ThrottleFirst(x) ==
  /\ x \in DOMAIN last_processed_ns => now - last_processed_ns[x] >= ApiInterval
  /\ last_processed_ns' = IF x \in DOMAIN last_processed_ns THEN last_processed_ns
                          ELSE Set(last_processed_ns, x, now)

(* The call is allowed, and noted whether or not the crop can be encoded. *)
should_process(x) ==
  /\ x \in DOMAIN last_processed_ns => now - last_processed_ns[x] >= ApiInterval
  /\ last_processed_ns' = Set(last_processed_ns, x, now)

(* An id that comes back after more than Away begins a new life. *)
Away == Retention + ApiTimeout

Seen(k) == [last |-> now,
            birth |-> IF now - sight[k].last > Away THEN now ELSE sight[k].birth]

(* ExternalProcessorService::process_object *)
ProcessCrop(x) ==
  /\ "crop" \in up /\ x[3] \in RuleKinds
  /\ should_process(x)
  /\ Launch("crop", x)
  /\ UNCHANGED <<now, up, osd_overrides, sight, shown>>

(* FrameEventsExtProcService::process_object, on an object of the frame. *)
ProcessFrameObject(x) ==
  /\ "frame" \in up /\ x[3] \in RuleKinds
  /\ Launch("frame", x)
  /\ sight' = [sight EXCEPT ![<<x[1], x[2]>>] = Seen(<<x[1], x[2]>>)]
  /\ UNCHANGED <<now, up, last_processed_ns, osd_overrides, shown>>

(* The thread ends: an HTTP error, the timeout, an answer that is empty or   *)
(* no JSON, or its answer is published, or not.                              *)
CallEnds(t) ==
  /\ calls[t] # NoCall
  /\ calls' = [calls EXCEPT ![t] = NoCall]
  /\ UNCHANGED <<now, up, last_processed_ns, osd_overrides, sight, shown>>

(* Mutant of Kept: nothing is ever cleaned up. *)
KeptForEver(f) == f

(* cleanup_stale_osd_overrides_locked *)
Kept(f) == [k \in {k \in DOMAIN f : now - f[k].touched <= Retention} |-> f[k]]

(* perform_api_call with an answer.  That of "frame" is kept for the overlay *)
(* as soon as it is parsed, whatever was kept before; then it is published,  *)
(* for which there is no timeout.                                            *)
Answered(t) ==
  /\ calls[t] # NoCall /\ calls[t].stage = "http"
  /\ LET x == calls[t].object
         entry == [kind |-> x[3], taken |-> calls[t].at, touched |-> now]
     IN osd_overrides' = IF calls[t].service = "frame"
                         THEN Kept(Set(osd_overrides, <<x[1], x[2]>>, entry))
                         ELSE osd_overrides
  /\ calls' = [calls EXCEPT ![t].stage = "publish"]
  /\ UNCHANGED <<now, up, last_processed_ns, sight, shown>>

(* An object without a label is taken for any. *)
Compatible(a, b) == a = b \/ Nameless \in {a, b}

(* apply_cached_display_text on a frame of slot s.  A text is not written    *)
(* over an object the tracker now calls something else, and is not kept      *)
(* alive by it.  Which camera is behind the slot is not looked at.           *)
ApplyCachedDisplayText(s, scene) ==
  LET kept == Kept(osd_overrides)
      mine == {k \in DOMAIN kept : /\ k[1] = s /\ k[2] \in DOMAIN scene
                                   /\ Compatible(kept[k].kind, scene[k[2]].kind)}
  IN /\ osd_overrides' = [k \in DOMAIN kept |->
                            IF k \in mine THEN [kept[k] EXCEPT !.touched = now] ELSE kept[k]]
     /\ sight' = [k \in Slots \X Ids |->
                    IF k[1] = s /\ k[2] \in DOMAIN scene THEN Seen(k) ELSE sight[k]]
     /\ shown' = [shown EXCEPT ![s] =
                    {[taken |-> kept[k].taken, birth |-> Seen(k).birth] : k \in mine}]
     /\ UNCHANGED <<now, up, last_processed_ns, calls>>

(* stop, or the end of the probe handler that owns the service. *)
Stop(service) ==
  /\ up' = up \ {service}
  /\ UNCHANGED <<now, last_processed_ns, calls, osd_overrides, sight, shown>>

(* curl ends a request after its timeout. *)
Tick ==
  /\ now < LastTime
  /\ \A t \in Threads : (calls[t] # NoCall /\ calls[t].stage = "http")
                         => now - calls[t].at < ApiTimeout
  /\ now' = now + 1
  /\ UNCHANGED <<up, last_processed_ns, calls, osd_overrides, sight, shown>>

Next == \/ Tick
        \/ \E x \in Objects : ProcessCrop(x) \/ ProcessFrameObject(x)
        \/ \E t \in Threads : CallEnds(t) \/ Answered(t)
        \/ \E s \in Slots, f \in Scenes : ApplyCachedDisplayText(s, f)
        \/ \E v \in Services : Stop(v)

Spec == Init /\ [][Next]_vars
-----------------------------------------------------------------------------
(* Properties *)

(* The requests of crop_objects for an object are few: throttle and timeout  *)
(* together bound those under way at its endpoint, however long that hangs.  *)
(* It says nothing of threads that wait for the broker, and nothing of the   *)
(* service of frame_events, which has no throttle.                           *)
CallsBounded ==
  ApiInterval > 0 =>
    \A x \in Objects :
      Cardinality({t \in Threads : /\ calls[t] # NoCall /\ calls[t].stage = "http"
                                   /\ calls[t].service = "crop" /\ calls[t].object = x})
        <= ApiTimeout \div ApiInterval + 1

(* An old text does not stick to a tracker id that is used again: when an id *)
(* comes back to its slot after it was out of sight for longer than the      *)
(* retention and the timeout of a request together, no text stands over it   *)
(* that was obtained before, in whichever order answers came and whoever     *)
(* asked meanwhile.  Within that time the text of the id goes to whatever    *)
(* object has it, of another camera behind the slot, too.                    *)
TextOfThisLife == \A s \in Slots : \A e \in shown[s] : e.birth <= e.taken
=============================================================================
