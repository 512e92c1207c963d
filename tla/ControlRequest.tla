--------------------------- MODULE ControlRequest ---------------------------
(***************************************************************************)
(* The control requests of e2sm_rc_module and e2sm_ccc_module, from their  *)
(* arguments to the bytes handed to rmr_send: the clamped ratios, the tree *)
(* of RAN parameters, and the E2AP frame that both modules lay out by      *)
(* hand, with Read as the external reference: an aligned-PER reader of the *)
(* five IEs of a RICcontrolRequest. Contents of octet strings do not       *)
(* matter: a header is a run of HeaderByte, a message one of MessageByte.  *)
(***************************************************************************)
EXTENDS Integers, Sequences

CONSTANT Malformed   (* what Read makes of a frame that is no request        *)

(* get_requestor_id, the same in both modules: 255 is never used. *)
NextId(id) == (id + 1) % 255

HeaderByte == 7
MessageByte == 9
Run(byte, n) == [i \in 1..n |-> byte]

Clamp(ratio) == IF ratio < 0 THEN 0 ELSE IF ratio > 100 THEN 100 ELSE ratio

(* The CCC module sends nothing if max is below min; the RC one does not look. *)
CccAccepts(a) == Clamp(a.max) >= Clamp(a.min)

-----------------------------------------------------------------------------
(* The RAN parameters of an RC control message, flattened: each with the   *)
(* parameter that holds it and its value, 0 for a fixed octet string. The  *)
(* ASN.1 wants the items of a list wrapped in sequence-of-ranParameters;   *)
(* asn1tools passes over members it does not know, so an item that is not  *)
(* wrapped is encoded as an empty structure.                               *)
Param(id, parent, choice, value) ==
  [id |-> id, parent |-> parent, choice |-> choice, value |-> value]

(* Style 2 action 6, slice-level PRB quota. *)
QuotaTree(a) ==
  {Param(1, 0, "list", 0), Param(3, 1, "structure", 0), Param(4, 3, "list", 0),
   Param(6, 4, "element", 0), Param(7, 4, "structure", 0),
   Param(8, 7, "element", 0), Param(9, 7, "element", 0),
   Param(10, 1, "element", Clamp(a.min)), Param(11, 1, "element", Clamp(a.max)),
   Param(12, 1, "element", Clamp(a.dedicated))}

(* Style 3 action 1, handover: target cell, then PDU sessions, DRBs and    *)
(* secondary cells with their QoS flows.                                   *)
HandoverTree ==
  {Param(n, n - 1, "structure", 0) : n \in 1..3}
  \cup {Param(4, 3, "element", 0), Param(5, 2, "structure", 0), Param(6, 5, "element", 0)}
  \cup (UNION {{Param(n, 0, "bare list", 0), Param(n + 1, n, "structure", 0),
                Param(n + 2, n + 1, "element", 0), Param(n + 3, n + 1, "bare list", 0),
                Param(n + 4, n + 3, "structure", 0), Param(n + 5, n + 4, "element", 0)} : n \in {7, 13}})
  \cup {Param(19, 0, "bare list", 0), Param(20, 19, "structure", 0), Param(21, 20, "element", 0)}

(* The parameters that reach the wire: no bare list on the way to them. *)
Parents(tree, n) == {q \in tree : \E p \in tree : p.id = n /\ q.id = p.parent}
Encoded(tree) ==
  LET reached[n \in 0..21] ==
        \A q \in Parents(tree, n) : q.choice # "bare list" /\ reached[q.id]
  IN  {p \in tree : reached[p.id]}

-----------------------------------------------------------------------------
(* An octet beyond 255 makes bytes() raise. *)
Octets(frame) == IF \A i \in DOMAIN frame : frame[i] \in 0..255 THEN frame ELSE Malformed

(* The frame that both modules lay out: a RICcontrolRequest of five IEs,   *)
(* with the lengths of the whole, the header and the message given.        *)
IE(n, length, value) == <<0, n, 0>> \o length \o value

IEs(id, func, headerLength, header, msgLength, msg, ack) ==
  <<0, 0, 5>>
  \o IE(29, <<5>>, <<0, 0, id, 0, 0>>) \o IE(5, <<2>>, <<0, func>>)
  \o IE(22, headerLength, header) \o IE(23, msgLength, msg) \o IE(21, <<1>>, <<64 * ack>>)
Layout(total, body) == <<0, 4, 0>> \o (total \o body)

(* e2sm_rc_module._build_ric_control_request: every length is one octet.   *)
RcFrame(id, func, header, msg, ack) ==
  LET h == Len(header)  m == Len(msg)
  IN Octets(Layout(<<33 + h + m>>,
              IEs(id, func, <<h + 1>>, <<h>> \o header, <<m + 1>>, <<m>> \o msg, ack)))

(* Mutant: the top two bits are left alone. *)
EncodeLengthPlain(n) ==
  IF n < 256 THEN <<n>> ELSE <<(n \div 256) % 256, n % 256>>

(* encode_length: one octet, else two with the top bits forced to 10. *)
EncodeLength(n) ==
  IF n < 256 THEN <<n>> ELSE <<128 + ((n \div 256) % 64), n % 256>>

(* e2sm_ccc_module._build_ric_control_request. *)
CccFrame(id, func, header, msg, ack) ==
  LET h == Len(header)  m == Len(msg)
  IN Octets(Layout(EncodeLength(32 + h + m + 1 + 2),
              IEs(id, func, EncodeLength(h + 1), EncodeLength(h) \o header,
                            EncodeLength(m + 2), EncodeLength(m) \o msg, ack)))

(* The JSON of a CCC request: 44 octets of header; the message holds each  *)
(* ratio twice, in decimal.                                                *)
Digits(n) == IF n < 10 THEN 1 ELSE IF n < 100 THEN 2 ELSE 3
CccHeader == Run(HeaderByte, 44)
CccMessage(a) ==
  Run(MessageByte, 733 + 2 * (Digits(Clamp(a.min)) + Digits(Clamp(a.max)) + Digits(Clamp(a.dedicated))))

-----------------------------------------------------------------------------
(* External: the reader. A length determinant and the octets it covers.    *)
ReadOctets(f, at) ==
  LET short == at <= Len(f) /\ f[at] < 128
      long == at < Len(f) /\ f[at] \in 128..191
      n == IF short THEN f[at] ELSE (f[at] - 128) * 256 + f[at + 1]
      from == IF short THEN at + 1 ELSE at + 2
  IN  IF (short \/ long) /\ from + n - 1 <= Len(f)
      THEN [octets |-> SubSeq(f, from, from + n - 1), next |-> from + n]
      ELSE Malformed

(* Exactly the octets of one length determinant. *)
ReadAll(f) ==
  LET r == ReadOctets(f, 1)
  IN  IF r # Malformed /\ r.next = Len(f) + 1 THEN r.octets ELSE Malformed

ReadIE(state, id) ==
  IF state = Malformed THEN Malformed
  ELSE LET f == state.body  at == state.next
           value == IF at + 2 <= Len(f) /\ SubSeq(f, at, at + 2) = <<0, id, 0>>
                    THEN ReadOctets(f, at + 3) ELSE Malformed
       IN  IF value = Malformed THEN Malformed
           ELSE [body |-> f, next |-> value.next,
                 values |-> [state.values EXCEPT ![id] = value.octets]]

(* The reader in front of each IE, in their order: RICrequestID,           *)
(* RANfunctionID, header, message and ack request.                         *)
IEIds == {29, 5, 22, 23, 21}
AtId(body) ==
  IF body # Malformed /\ SubSeq(body, 1, 3) = <<0, 0, 5>>
  THEN [body |-> body, next |-> 4, values |-> [n \in IEIds |-> <<>>]] ELSE Malformed
AtFunction(body) == ReadIE(AtId(body), 29)
AtHeader(body) == ReadIE(AtFunction(body), 5)
AtMessage(body) == ReadIE(AtHeader(body), 22)
AtAck(body) == ReadIE(AtMessage(body), 23)
AtEnd(body) == ReadIE(AtAck(body), 21)

Body(f) == IF SubSeq(f, 1, 3) = <<0, 4, 0>> THEN ReadAll(SubSeq(f, 4, Len(f))) ELSE Malformed

Read(f) ==
  LET all == AtEnd(Body(f))
  IN  IF all # Malformed /\ all.next = Len(Body(f)) + 1
      THEN [id |-> all.values[29][3], func |-> all.values[5][2],
            header |-> ReadAll(all.values[22]), msg |-> ReadAll(all.values[23]),
            ack |-> all.values[21][1] \div 64]
      ELSE Malformed
=============================================================================
