-------------------------- MODULE DocumentJourney --------------------------
(***************************************************************************)
(* Reading a passport page in the browser: DocumentVerificationJourney,    *)
(* its history of screens, the camera and the recognition loop.            *)
(*                                                                         *)
(* A screen changes at once in the journey's history, and its effects run  *)
(* when React has rendered it; the answers of the camera and of the text   *)
(* detector arrive at any moment, before the render, after another screen  *)
(* has been chosen or after the journey has been left.                     *)
(***************************************************************************)
EXTENDS Mrz

CONSTANTS Pages,          \* passports: records of the true birth and expiry dates
          Today,          \* the date of the reading
          MaxVisits,      \* bound: screens in the history
          MaxRequests,    \* bound: value of the cameraRequest counter
          MaxReadings     \* bound: frames being read at once

ASSUME DocumentAssumption == {MaxVisits, MaxRequests, MaxReadings} \subseteq Nat

Steps == {"explain-1", "explain-2", "explain-3", "video", "start", "permission", "capture", "manual", "chip"}

\* A date as the zone prints it, and what a camera can make of a page: its two fields, with
\* at most one digit misread.
Printed(date) == <<(date.y % 100) \div 10, date.y % 10, date.m \div 10, date.m % 10, date.d \div 10, date.d % 10>>

Frames(page) ==
    LET line == Line(Printed(page.birth), Printed(page.expiry))
    IN  {line} \cup {[line EXCEPT !.birth[i] = c] : i \in 1..7, c \in 0..9}
               \cup {[line EXCEPT !.expiry[i] = c] : i \in 1..7, c \in 0..9}

\* The pages of which some frame is recognized, and found to be eligible.
Acceptable == {page \in Pages : \E line \in Frames(page) : parseTd3(line, Today) /\ toEligibility(line, Today)}

VARIABLES
    visits,      \* visits of useJourneyHistory, the last one is shown
    rendered,    \* the screen whose effects have run
    cameraRequest,
    asking,      \* the requests the browser has not answered
    stream,      \* streamRef: the request its stream came from, 0 when null
    lit,         \* the streams whose tracks have not been stopped
    reading,     \* frames the recognizer of the current capture still reads
    delivered,   \* what onDocumentRead has handed on
    mounted

dvars == <<visits, rendered, cameraRequest, asking, stream, lit, reading, delivered, mounted>>

step == visits[Len(visits)]

DTypeOK ==
    /\ visits \in Seq(Steps) /\ Len(visits) \in 1..MaxVisits
    /\ rendered \in Steps /\ cameraRequest \in 0..MaxRequests
    /\ asking \subseteq 1..MaxRequests /\ stream \in 0..MaxRequests /\ lit \subseteq 1..MaxRequests
    /\ reading \in 0..MaxReadings /\ delivered \subseteq [page : Pages, source : {"camera", "manual"}]
    /\ mounted \in BOOLEAN

DInit ==
    /\ visits = <<"explain-1">> /\ rendered = "explain-1" /\ cameraRequest = 0 /\ asking = {}
    /\ stream = 0 /\ lit = {} /\ reading = 0 /\ delivered = {} /\ mounted = TRUE

\* go: the screen already shown is not visited twice.
Go(next) == visits' = IF step = next THEN visits ELSE Append(visits, next)

CanGo == mounted /\ Len(visits) < MaxVisits

\* The buttons of a screen are there once it has been rendered, and the browser's back
\* button is taken to be slower than a render.
On(s) == mounted /\ step = s /\ rendered = s

\* stopCamera: the tracks of the stream are stopped and a request under way is outdated.
StopCamera ==
    /\ cameraRequest < MaxRequests /\ cameraRequest' = cameraRequest + 1
    /\ lit' = lit \ {stream} /\ stream' = 0

\* The buttons of the explanations, of the video and of the start.
Following == [s \in {"explain-1", "explain-2", "explain-3", "video", "start"} |->
    CASE s = "explain-1" -> "explain-2" [] s = "explain-2" -> "explain-3" [] s = "explain-3" -> "video"
      [] s = "video" -> "start" [] s = "start" -> "permission"]

Advance ==
    /\ CanGo /\ rendered = step /\ step \in DOMAIN Following /\ Go(Following[step])
    /\ UNCHANGED <<rendered, cameraRequest, asking, stream, lit, reading, delivered, mounted>>

\* startCamera asks the browser; the button stays enabled while it has not answered.
StartCamera ==
    /\ On("permission") /\ cameraRequest < MaxRequests
    /\ cameraRequest' = cameraRequest + 1 /\ asking' = asking \cup {cameraRequest'}
    /\ UNCHANGED <<visits, rendered, stream, lit, reading, delivered, mounted>>

\* Mutant: a stream that nobody waits for any more is used all the same.
AwaitedAnyway(r) == mounted

\* Only the latest request of a mounted journey is waited for.
Awaited(r) == mounted /\ r = cameraRequest

\* openCamera: a stream, on any camera when there is no rear one, or a reason.
CameraAnswers(r) ==
    /\ r \in asking /\ asking' = asking \ {r}
    /\ \/ /\ Awaited(r) /\ Len(visits) < MaxVisits
          /\ stream' = r /\ lit' = lit \cup {r} /\ Go("capture")
       \/ UNCHANGED <<stream, lit, visits>>   \* refused, or closed because it comes too late
    /\ UNCHANGED <<rendered, cameraRequest, reading, delivered, mounted>>

\* The effects of a rendered screen: off the capture screen the camera is stopped, and
\* what the recognizer of the last capture still reads is cancelled.
Settle ==
    /\ mounted /\ rendered # step /\ rendered' = step /\ reading' = 0
    /\ IF step # "capture" THEN StopCamera ELSE UNCHANGED <<cameraRequest, lit, stream>>
    /\ UNCHANGED <<visits, asking, delivered, mounted>>

\* The interval of the recognition loop takes another frame before the last one is read.
Recognize ==
    /\ mounted /\ rendered = "capture" /\ reading < MaxReadings /\ reading' = reading + 1
    /\ UNCHANGED <<visits, rendered, cameraRequest, asking, stream, lit, delivered, mounted>>

\* acceptRecord, when the recognizer has read a frame.
AcceptRecord(page) ==
    /\ mounted /\ reading > 0 /\ reading' = reading - 1
    /\ \/ /\ page \in Acceptable /\ CanGo /\ Go("chip")
          /\ StopCamera /\ delivered' = delivered \cup {[page |-> page, source |-> "camera"]}
       \/ UNCHANGED <<visits, cameraRequest, stream, lit, delivered>>   \* not in this frame, or refused
    /\ UNCHANGED <<rendered, asking, mounted>>

\* The manual form, from the permission and from the capture screen, and back to the scanner.
EnterManually ==
    /\ CanGo /\ (On("permission") \/ On("capture")) /\ Go("manual")
    /\ UNCHANGED <<rendered, cameraRequest, asking, stream, lit, reading, delivered, mounted>>

BackToScanner ==
    /\ CanGo /\ On("manual") /\ Go("permission")
    /\ UNCHANGED <<rendered, cameraRequest, asking, stream, lit, reading, delivered, mounted>>

SubmitManual(page) ==
    /\ CanGo /\ On("manual") /\ validateManualFields(page, Today)
    /\ delivered' = delivered \cup {[page |-> page, source |-> "manual"]} /\ Go("chip")
    /\ UNCHANGED <<rendered, cameraRequest, asking, stream, lit, reading, mounted>>

\* The journey is left, by its buttons or because what shows it is closed.
Leave ==
    /\ mounted /\ mounted' = FALSE /\ StopCamera /\ reading' = 0
    /\ UNCHANGED <<visits, rendered, asking, delivered>>

\* The back button of a screen stops the camera; the browser's own only changes the screen.
StepBack ==
    /\ On(step) /\ Len(visits) > 1 /\ visits' = SubSeq(visits, 1, Len(visits) - 1)
    /\ StopCamera \/ UNCHANGED <<cameraRequest, stream, lit>>
    /\ UNCHANGED <<rendered, asking, reading, delivered, mounted>>

DNext ==
    \/ Advance \/ StartCamera \/ Settle \/ Recognize \/ EnterManually \/ BackToScanner \/ Leave \/ StepBack
    \/ \E r \in asking : CameraAnswers(r)
    \/ \E page \in Pages : AcceptRecord(page) \/ SubmitManual(page)

DSpec == DInit /\ [][DNext]_dvars

-----------------------------------------------------------------------------

\* No camera is left running: every stream still lit is the one the journey holds, a
\* rendered screen other than the capture holds none, and neither does a journey that was
\* left, however late the browser grants the request (startCamera, stopCamera).
CameraReleased ==
    /\ lit \subseteq {stream}
    /\ stream # 0 => mounted /\ (rendered = step => step = "capture")

\* Only the page of an adult with a valid passport is handed on by the camera, whichever of
\* the frames being read comes first and whichever digit of its dates the camera misreads
\* (acceptRecord; the check digits and the century of mrz.ts).
ReadPageIsEligible ==
    \A d \in delivered : d.source = "camera" => isAdult(d.page.birth, Today) /\ ~isExpired(d.page.expiry, Today)
=============================================================================
