---------------------------- MODULE ObjectCount ----------------------------
(***************************************************************************)
(* From a monitor's zone and the detections of one frame to the monitor's  *)
(* two observations: update_monitor and normalized_zone (main.py) store a  *)
(* zone, monitor_zone and observations_for (inference/hailo.py) read it    *)
(* back, and the object-count plugin counts (plugins/object_count.py).     *)
(*                                                                         *)
(* The picture is Side units wide and high; coordinates are integers, and  *)
(* the centre of a box is kept doubled so that it stays one.  A zone that  *)
(* may be absent is a set of at most one rectangle.                        *)
(***************************************************************************)
EXTENDS Integers, FiniteSets

CONSTANT Side           \* the width and the height of the picture, 1.0 in the code

ASSUME SideAssumption == Side \in Nat \ {0}

VARIABLES
    drawn,      \* what the operator entered last, if anything
    zone        \* the zone in the monitor's configuration

zones == <<drawn, zone>>

Classes == {"person", "car"}
Atleast(v, low)  == IF v < low THEN low ELSE v
Atmost(v, high)  == IF v > high THEN high ELSE v
Clamped(v) == Atmost(Atleast(v, 0), Side)

\* normalized_zone: the corner is moved into the picture, then the size is cut to what
\* is left of the picture beyond the corner.
NormalizedZone(z) ==
    [x |-> Clamped(z.x), y |-> Clamped(z.y),
     width  |-> Atmost(Atleast(z.width, 0), Side - Clamped(z.x)),
     height |-> Atmost(Atleast(z.height, 0), Side - Clamped(z.y))]

\* update_monitor: what the form's zone becomes in the monitor's configuration, if its box
\* is checked.
StoredZone(form) ==
    {NormalizedZone(z) :
        z \in {z \in {form.area} : form.enabled /\ z.width > 0 /\ z.height > 0}}

ZoneInit == drawn = {} /\ zone = {}

UpdateMonitor(form) == drawn' = {form} /\ zone' = StoredZone(form)

\* monitor_zone: a rectangle without an area is no zone at all.
MonitorZone(stored) ==
    {[x |-> Clamped(z.x), y |-> Clamped(z.y),
      width  |-> Atmost(z.width, Side - Clamped(z.x)),
      height |-> Atmost(z.height, Side - Clamped(z.y))] :
        z \in {z \in stored : z.width > 0 /\ z.height > 0}}

CentreX(box) == 2 * box.x + box.width           \* doubled
CentreY(box) == 2 * box.y + box.height

\* Mutant: the upper left corner of the box is looked up, not its centre.
DetectionInZoneByCorner(detection, area) ==
    \A z \in area :
        /\ detection.bbox.x \in z.x .. z.x + z.width
        /\ detection.bbox.y \in z.y .. z.y + z.height

DetectionInZone(detection, area) ==
    \A z \in area :
        /\ CentreX(detection.bbox) \in 2 * z.x .. 2 * (z.x + z.width)
        /\ CentreY(detection.bbox) \in 2 * z.y .. 2 * (z.y + z.height)

\* ObjectCountPlugin.on_detections: which of the detections match.
Matches(config, detections) ==
    {i \in DOMAIN detections :
        /\ detections[i].class = config.class
        /\ detections[i].confidence >= config.threshold
        /\ DetectionInZone(detections[i], MonitorZone(config.zone))}

\* The two observations of a monitor, in their order.  A metric is a class and what is
\* told of it; values are typed as Conditions types them: numbers in halves.
ObservationsFor(monitor, config, detections) ==
    LET count == Cardinality(Matches(config, detections))
    IN  << [monitor |-> monitor, metric |-> <<config.class, "count">>,
            value |-> [type |-> "int", half |-> 2 * count]],
           [monitor |-> monitor, metric |-> <<config.class, "present">>,
            value |-> [type |-> "bool", half |-> IF count > 0 THEN 2 ELSE 0]] >>

-----------------------------------------------------------------------------
(***************************************************************************)
(* What the operator drew and what is counted.                             *)
(***************************************************************************)

Rectangles == [x : -1 .. Side + 1, y : -1 .. Side + 1,
               width : -1 .. Side + 1, height : -1 .. Side + 1]
Boxes == {b \in [x : 0 .. Side, y : 0 .. Side, width : 0 .. Side, height : 0 .. Side] :
              b.x + b.width <= Side /\ b.y + b.height <= Side}
Within(box, z) ==
    /\ 2 * z.x <= CentreX(box) /\ CentreX(box) <= 2 * (z.x + z.width)
    /\ 2 * z.y <= CentreY(box) /\ CentreY(box) <= 2 * (z.y + z.height)
Counts(box) ==
    Matches([class |-> "person", threshold |-> 1, zone |-> zone],
            << [class |-> "person", confidence |-> 1, bbox |-> box] >>) # {}

ZoneForms == [enabled : BOOLEAN, area : Rectangles]
ZoneSpec == ZoneInit /\ [][\E form \in ZoneForms : UpdateMonitor(form)]_zones

Unbound(form) ==
    \/ ~form.enabled \/ form.area.width <= 0 \/ form.area.height <= 0
    \/ form.area.x >= Side \/ form.area.y >= Side
MovedIn(z) == [z EXCEPT !.x = Atleast(@, 0), !.y = Atleast(@, 0)]

(* A zone goes through two normalisations, in the API and in the worker.  For every
   rectangle the form can send: one with an area whose corner lies in the picture and
   off its far edges counts exactly the boxes whose centre lies in the rectangle as
   drawn, the far edges cut off; one whose corner lies left of or above the picture is
   moved into it with its size; one that is switched off or without an area, or whose
   corner lies on or beyond the right or the lower edge, is no zone and the whole picture
   counts. *)
ZoneCountsWhatWasDrawn ==
    \A form \in drawn, box \in Boxes :
        Counts(box) <=> Unbound(form) \/ Within(box, MovedIn(form.area))
=============================================================================
