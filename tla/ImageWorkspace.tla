----------------------------- MODULE ImageWorkspace -----------------------------
(***************************************************************************)
(* One shipvision/imgproc backend and the threads that call it: which       *)
(* operation it has, what it refuses, and for the native one the thread     *)
(* that owns it, the staging ring under it (csrc/shipvision/core/buffers.h, *)
(* csrc/bindings/module.cpp) and the stream that works behind the host.     *)
(* The embedder may release the interpreter's lock around a call, so two    *)
(* threads interleave inside one wherever the claim lets both through.      *)
(*                                                                          *)
(* A call is its number, and so are the pixels it brings: staging memory    *)
(* and outputs hold the number of the call whose pixels they have.          *)
(***************************************************************************)
EXTENDS Integers, Sequences, FiniteSets, FiniteSetsExt, Functions, SequencesExt

CONSTANTS Workers,
          Slots,     \* of the staging ring
          MaxImages  \* bound: calls of the instance

NoThread == "none"

ASSUME WorkspaceAssumption == Slots \in Nat \ {0} /\ MaxImages \in Nat /\ NoThread \notin Workers

VARIABLES backend,     \* "python", "cpu" or "cuda" (torch), "native"
          owner,       \* _owner_thread
          holder,      \* of _claim_lock
          at,          \* where every thread is
          job,         \* and with which call
          issued,      \* calls so far
          ring,        \* the slots: pinned and device bytes, the call whose event it waits for
          cursor,      \* the slot acquired last
          stream,      \* work the device has not done
          scratch,     \* output_ and pinned_download_, of the calls that return to the host
          written      \* what the caller's buffer or array got

workspace == <<backend, owner, holder, at, job, issued, ring, cursor, stream, scratch, written>>

ImageBackends == {"python", "cpu", "cuda", "native"}

(* An operation: what it reads, and whether a device buffer is its output.   *)
Operations ==
    {"letterbox", "crop_batch", "nv12_letterbox",
     "letterbox_into", "crop_batch_into", "nv12_letterbox_into", "nv12_letterbox_device_into"}

Into(op) == op \in {"letterbox_into", "crop_batch_into", "nv12_letterbox_into",
                    "nv12_letterbox_device_into"}

Crops(op) == op \in {"crop_batch", "crop_batch_into"}

Nv12(op) == op \in {"nv12_letterbox", "nv12_letterbox_into", "nv12_letterbox_device_into"}

(* supports_device_output, supports_nv12 and the methods behind them.        *)
Supports(b, op) ==
    \/ b = "native"
    \/ ~Nv12(op) /\ (Into(op) => b = "cuda")
    \/ b = "python" /\ op = "nv12_letterbox"

(* What may be wrong with an image, a box, an extent or the normalisation;   *)
(* with the number of them; with the buffer.                                 *)
Flaws == {"none", "insane", "empty", "small", "elsewhere", "bare"}

Requests ==
    {r \in [op : Operations, flaw : Flaws] :
        /\ r.flaw \in {"small", "elsewhere", "bare"} => Into(r.op)
        /\ r.flaw = "insane" => r.op \in {"letterbox", "nv12_letterbox_into"}
        /\ r.flaw = "empty" => r.op \in {"letterbox", "crop_batch_into"}
        /\ r.flaw \in {"small", "elsewhere", "bare"} => r.op = "letterbox_into"}

(* validate_image, validate_boxes, resolve_normalisation, as_image_batch:    *)
(* no image is an error, no box is not.                                      *)
Sane(r) == r.flaw # "insane" /\ (r.flaw = "empty" => Crops(r.op))

(* DeviceBuffer.require; torch writes through the tensor, native through the *)
(* address.                                                                  *)
Fits(b, r) == r.flaw \notin {"small", "elsewhere"} /\ (r.flaw = "bare" => b # "cuda")

WorkspaceInit ==
    /\ backend \in ImageBackends
    /\ owner = NoThread /\ holder = NoThread
    /\ at = [t \in Workers |-> "idle"]
    /\ job = [t \in Workers |-> <<>>]
    /\ issued = 0
    /\ ring = [s \in 1 .. Slots |-> [pinned |-> 0, device |-> 0, event |-> 0]]
    /\ cursor = Slots
    /\ stream = <<>> /\ scratch = [output |-> 0, download |-> 0] /\ written = <<>>

(* What the buffers hold once a call has written to its own.                 *)
Wrote(call, pixels) ==
    [c \in DOMAIN written \cup {call} |-> IF c = call THEN pixels ELSE written[c]]

Go(t, place) == at' = [at EXCEPT ![t] = place]

(* A call, and the first look at the owner, outside of the lock.             *)
Call(t) ==
    /\ at[t] = "idle" /\ issued < MaxImages
    /\ issued' = issued + 1
    /\ \E r \in Requests :
          job' = [job EXCEPT ![t] = [call |-> issued', op |-> r.op, flaw |-> r.flaw, slot |-> 0]]
    /\ Go(t, CASE backend # "native" -> "elsewhere"
               [] owner = NoThread -> "lock"
               [] OTHER -> "compare")
    /\ UNCHANGED <<backend, owner, holder, ring, cursor, stream, scratch, written>>

(* A backend without a workspace: refused, or done before it returns.        *)
Elsewhere(t) ==
    /\ at[t] = "elsewhere"
    /\ written' = IF Supports(backend, job[t].op) /\ Sane(job[t]) /\ Fits(backend, job[t])
                     /\ job[t].flaw # "empty"
                  THEN Wrote(job[t].call, job[t].call) ELSE written
    /\ Go(t, "idle")
    /\ UNCHANGED <<backend, owner, holder, job, issued, ring, cursor, stream, scratch>>

(* _claim_thread                                                             *)
Lock(t) ==
    /\ at[t] = "lock" /\ holder = NoThread
    /\ holder' = t /\ Go(t, "claim")
    /\ UNCHANGED <<backend, owner, job, issued, ring, cursor, stream, scratch, written>>

(* Mutant of MayClaim: the owner is not looked at again under the lock.     *)
MayClaimAtFirstSight(o) == TRUE

MayClaim(o) == o = NoThread

(* The second look.                                                          *)
Claim(t) ==
    /\ at[t] = "claim"
    /\ IF MayClaim(owner) THEN Go(t, "take") /\ UNCHANGED holder ELSE Go(t, "compare") /\ holder' = NoThread
    /\ UNCHANGED <<backend, owner, job, issued, ring, cursor, stream, scratch, written>>

Take(t) ==
    /\ at[t] = "take"
    /\ owner' = t /\ holder' = NoThread
    /\ Go(t, "check")
    /\ UNCHANGED <<backend, job, issued, ring, cursor, stream, scratch, written>>

Compare(t) ==
    /\ at[t] = "compare"
    /\ Go(t, IF owner = t THEN "check" ELSE "idle")
    /\ UNCHANGED <<backend, owner, holder, job, issued, ring, cursor, stream, scratch, written>>

(* The arguments, after the claim and before anything is launched; a frame   *)
(* without boxes is done.                                                    *)
Check(t) ==
    /\ at[t] = "check"
    /\ Go(t, IF Sane(job[t]) /\ Fits(backend, job[t]) /\ job[t].flaw # "empty"
             THEN "acquire" ELSE "idle")
    /\ UNCHANGED <<backend, owner, holder, job, issued, ring, cursor, stream, scratch, written>>

(* The event of a slot, when work before it in the stream is not done.       *)
Pending(event) == \E i \in DOMAIN stream : stream[i].op = "event" /\ stream[i].call = event

(* StagingSlot.wait                                                          *)
Reusable(slot) == ~Pending(ring[slot].event)

(* StagingRing.acquire                                                       *)
Acquire(t) ==
    LET next == (cursor % Slots) + 1
    IN /\ at[t] = "acquire" /\ Reusable(next)
       /\ cursor' = next
       /\ job' = [job EXCEPT ![t].slot = next]
       /\ Go(t, "fill")
       /\ UNCHANGED <<backend, owner, holder, issued, ring, stream, scratch, written>>

Fill(t) ==
    /\ at[t] = "fill"
    /\ ring' = [ring EXCEPT ![job[t].slot].pinned = job[t].call]
    /\ Go(t, "launch")
    /\ UNCHANGED <<backend, owner, holder, job, issued, cursor, stream, scratch, written>>

(* The upload, the kernel and the event; the driver may refuse the launch    *)
(* after the upload, and then there is no event.  A call for the host adds   *)
(* its download and waits.                                                   *)
Launch(t) ==
    LET op(name) == [op |-> name, call |-> job[t].call, slot |-> job[t].slot, into |-> Into(job[t].op)]
    IN /\ at[t] = "launch"
       /\ \/ /\ stream' = Append(stream, op("upload"))
             /\ Go(t, "idle") /\ UNCHANGED ring
          \/ /\ stream' = stream \o <<op("upload"), op("kernel"), op("event")>>
                              \o IF Into(job[t].op) THEN <<>> ELSE <<op("download")>>
             /\ ring' = [ring EXCEPT ![job[t].slot].event = job[t].call]
             /\ Go(t, IF Into(job[t].op) THEN "idle" ELSE "download")
       /\ UNCHANGED <<backend, owner, holder, job, issued, cursor, scratch, written>>

(* Mutant of Synchronised: the copy out does not wait for the stream.        *)
SynchronisedNever == TRUE

(* gpuStreamSynchronize                                                      *)
Synchronised == stream = <<>>

(* The copy out of the pinned memory.                                        *)
Download(t) ==
    /\ at[t] = "download" /\ Synchronised
    /\ written' = Wrote(job[t].call, scratch.download)
    /\ Go(t, "idle")
    /\ UNCHANGED <<backend, owner, holder, job, issued, ring, cursor, stream, scratch>>

(* The device, in the order of its stream.                                   *)
Work ==
    /\ stream # <<>>
    /\ stream' = Tail(stream)
    /\ LET w == Head(stream)
           read == ring[w.slot].device
       IN /\ ring' = IF w.op = "upload"
                     THEN [ring EXCEPT ![w.slot].device = ring[w.slot].pinned] ELSE ring
          /\ scratch' = CASE w.op = "kernel" /\ ~w.into -> [scratch EXCEPT !.output = read]
                          [] w.op = "download" -> [scratch EXCEPT !.download = scratch.output]
                          [] OTHER -> scratch
          /\ written' = IF w.op = "kernel" /\ w.into THEN Wrote(w.call, read) ELSE written
    /\ UNCHANGED <<backend, owner, holder, at, job, issued, cursor>>

WorkspaceNext ==
    \/ \E t \in Workers : \/ Call(t) \/ Elsewhere(t) \/ Lock(t) \/ Claim(t) \/ Take(t)
                          \/ Compare(t) \/ Check(t) \/ Acquire(t) \/ Fill(t) \/ Launch(t) \/ Download(t)
    \/ Work

WorkspaceSpec == WorkspaceInit /\ [][WorkspaceNext]_workspace

------------------------------------------------------------------------------
(* Past the claim.                                                           *)
Inside == {"check", "acquire", "fill", "launch", "download"}

(* Nobody is past the claim but the one thread the instance belongs to,      *)
(* whoever looked at it first (_claim_thread).                               *)
OneOwner == \A t \in Workers : at[t] \in Inside => owner = t

(* What a call writes are its own pixels: no later call has overwritten them *)
(* in the pinned memory while the copy was to come, or on the device while   *)
(* the kernel was, and a launch that failed between its upload and its event *)
(* leaves nothing a later call could take for its own (StagingRing).         *)
PixelsAreTheCalls == \A c \in DOMAIN written : written[c] = c
================================================================================
