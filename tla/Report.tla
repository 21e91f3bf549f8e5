------------------------------- MODULE Report -------------------------------
(***************************************************************************)
(* audit (src/report.rs): the findings raised on a list of histories.      *)
(* They are kept as a set: the order of the report is that of the          *)
(* histories, and no rule reads it.                                        *)
(***************************************************************************)
EXTENDS Grading, FiniteSets

\* The values of one attribute of one device ({} when it has no entry).
ValuesOf(histories, device, attribute) ==
    UNION {ReportedValues(histories[i].values) : i \in {j \in DOMAIN histories :
        GroupOf(histories[j]) = [device |-> device, attribute |-> attribute]}}

TsValues(histories, device, attribute) ==
    {v.at : v \in {w \in ValuesOf(histories, device, attribute) : ~IsText(w)}}

TextValues(histories, device, attribute) ==
    {v.text : v \in {w \in ValuesOf(histories, device, attribute) : IsText(w)}}

DevicesIn(histories) == {histories[i].device : i \in DOMAIN histories}

\* One finding per graded attribute that is not single-source.
GradeFindings(histories) ==
    {[code |-> IF histories[i].consistency = "Conflicting"
               THEN "USB-TIMESTAMP-CONFLICT" ELSE "USB-DEVICE-HISTORY",
      device |-> histories[i].device, attribute |-> histories[i].attribute] :
        i \in {j \in DOMAIN histories : histories[j].consistency # "SingleSource"}}

\* Mutant: any first connection after any last one, in place of min and max.
ImpossibleAnyPair(histories, device) ==
    LET first == TsValues(histories, device, "FirstConnected")
        last == TsValues(histories, device, "LastConnected")
                    \cup TsValues(histories, device, "LastRemoved")
    IN  \E f \in first, l \in last : f >= l

\* The earliest first connection is after the latest connection or removal.
ImpossibleOrdering(histories, device) ==
    LET first == TsValues(histories, device, "FirstConnected")
        last == TsValues(histories, device, "LastConnected")
                    \cup TsValues(histories, device, "LastRemoved")
    IN  /\ first # {} /\ last # {}
        /\ Min(first) > Max(last)

\* The first value in report order names the kind of encryption.
EncryptionKinds(histories, device) ==
    {histories[i].values[1].value.text : i \in {j \in DOMAIN histories :
        /\ GroupOf(histories[j]) = [device |-> device, attribute |-> "Encryption"]
        /\ IsText(histories[j].values[1].value)}}

IsMtp(histories, device) == Mtp \in TextValues(histories, device, "DeviceClass")

RaisedWhen(condition, finding) == IF condition THEN {finding} ELSE {}

DeviceFindings(histories, device) ==
    RaisedWhen(ImpossibleOrdering(histories, device),
               [code |-> "USB-IMPOSSIBLE-ORDERING", device |-> device])
    \cup {[code |-> "USB-VOLUME-ENCRYPTED", device |-> device, kind |-> kind] :
            kind \in EncryptionKinds(histories, device)}
    \cup RaisedWhen(IsMtp(histories, device), [code |-> "USB-MTP-DEVICE", device |-> device])

\* Mutant: only one serial of each device is paired with its label.
SerialsSeenWithFirst(histories, label) ==
    UNION {LET serials == TextValues(histories, device, "VolumeSerial")
           IN  IF serials = {} THEN {} ELSE {CHOOSE s \in serials : TRUE} :
        device \in {d \in DevicesIn(histories) : label \in TextValues(histories, d, "VolumeName")}}

\* Every serial of every device that has the label: the pairing is by device.
SerialsSeenWith(histories, label) ==
    UNION {TextValues(histories, device, "VolumeSerial") :
        device \in {d \in DevicesIn(histories) : label \in TextValues(histories, d, "VolumeName")}}

ReformattingFindings(histories) ==
    {[code |-> "USB-VOLUME-REFORMATTED", label |-> label,
      serials |-> SerialsSeenWith(histories, label)] :
        label \in {l \in UNION {TextValues(histories, d, "VolumeName") : d \in DevicesIn(histories)} :
            Cardinality(SerialsSeenWith(histories, l)) >= 2}}

Audit(histories) ==
    GradeFindings(histories)
    \cup (UNION {DeviceFindings(histories, device) : device \in DevicesIn(histories)})
    \cup ReformattingFindings(histories)
=============================================================================
