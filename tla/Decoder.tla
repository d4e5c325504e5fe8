------------------------------ MODULE Decoder ------------------------------
(***************************************************************************)
(* gssapi-parser/decoder.c: one run of the decoder over a token file.  The *)
(* BER decoder is generated from gssapi.asn1 and external: it takes a      *)
(* whole structure of the type it is called for.  The file is one of       *)
(* TokenFiles, or NoFile for one that is missing.                          *)
(***************************************************************************)
EXTENDS TokenFiles

CONSTANTS
    BufferSize,  \* sizeof(buff) in main, 2048 in the code
    LineWidth    \* bytes on a line of print_bytes, 16 in the code

ASSUME DecoderAssumption == BufferSize \in Nat \ {0} /\ LineWidth \in Nat \ {0}

VARIABLES
    dpc,     \* the next call
    dfile,   \* the token file: its token, leg and stored bytes
    dtype,   \* the second argument
    dbytes,  \* length of the buffer given to the current parser
    di,      \* i of print_bytes
    dleft,   \* size of print_bytes
    dout,    \* the indexes of the bytes printed
    dshown,  \* the structures that were decoded and shown
    dret     \* the exit code

decoderVars == <<dpc, dfile, dtype, dbytes, di, dleft, dout, dshown, dret>>

Types == {"gssapi", "spnego", "other"}

\* The grammar has one value for the inner token and nothing after it.  An SPNEGO
\* token has one, the first that is sent; the later ones have no OID before them.
\* A Kerberos token has two, a token id and a message.  The header of a token takes
\* a byte here.
InnerIsOneValue(file) == file.token.mech = "spnego" /\ file.leg = 1
InnerSize(file) == file.token.size - 1

\* ber_decode of all the bytes the decoder has read.  A token of which a part
\* is missing gives RC_WMORE, a type that does not fit RC_FAIL; a negTokenResp is
\* not decoded (Known issue in the README of gssapi-parser).
ReadWhole == dbytes = dfile.token.size
DecodesInitial == InnerIsOneValue(dfile) /\ ReadWhole
DecodesNegotiation == dfile.token.mech = "spnego" /\ dfile.leg = 1 /\ "token" \in dshown

DecoderInit ==
    /\ dpc = "idle" /\ dfile = NoFile /\ dtype = "gssapi" /\ dbytes = 0
    /\ di = 0 /\ dleft = 0 /\ dout = <<>> /\ dshown = {} /\ dret = 0

DExit(ret) ==
    /\ dpc' = "done" /\ dret' = ret
    /\ UNCHANGED <<dfile, dtype, dbytes, di, dleft, dout>>

\* fread.
BytesRead(file) == IF file.stored < BufferSize THEN file.stored ELSE BufferSize

\* main up to the choice of the parser.  NoFile stands for a missing file.
DOpen(file, type) ==
    /\ dpc = "idle"
    /\ dfile' = file /\ dtype' = type /\ dbytes' = BytesRead(file)
    /\ di' = 0 /\ dleft' = 0 /\ dout' = <<>> /\ dshown' = {}
    /\ IF BytesRead(file) = 0 THEN dpc' = "done" /\ dret' = 1
       ELSE dpc' = "choose" /\ dret' = 0

\* strcmp of the second argument; a wrong one prints the usage, and 0 is
\* returned.
DChoose ==
    /\ dpc = "choose"
    /\ \/ /\ dtype = "gssapi" /\ dpc' = "initial"
          /\ UNCHANGED <<dfile, dtype, dbytes, di, dleft, dout, dshown, dret>>
       \/ /\ dtype = "spnego" /\ dpc' = "print" /\ dleft' = dbytes
          /\ UNCHANGED <<dfile, dtype, dbytes, di, dout, dshown, dret>>
       \/ dtype = "other" /\ DExit(0) /\ UNCHANGED dshown

\* Faulty variant of DParseGssapi: RC_WMORE is taken for success.
DParseGssapiPartial ==
    /\ dpc = "initial"
    /\ dshown' = dshown \cup {"token"} /\ DExit(0)

\* The mechanism of the token is the OID of SPNEGO.
CheckIfSpnego(file) == file.token.mech = "spnego"

\* parse_gssapi: the inner token of an SPNEGO token is decoded as well.
DParseGssapi ==
    /\ dpc = "initial"
    /\ \/ /\ DecodesInitial /\ dshown' = dshown \cup {"token"}
          /\ IF CheckIfSpnego(dfile)
             THEN /\ dpc' = "print" /\ dbytes' = InnerSize(dfile) /\ dleft' = InnerSize(dfile)
                  /\ UNCHANGED <<dfile, dtype, di, dout, dret>>
             ELSE DExit(0)
       \/ ~DecodesInitial /\ DExit(1) /\ UNCHANGED dshown

\* Faulty variant of Lines: a last line that is not full is forgotten.
LinesFull == dbytes \div LineWidth

\* The lines of print_bytes, from the size it was called with, and the bytes
\* on the line when size bytes are left.
Lines == dbytes \div LineWidth + 1

\* Faulty variant of OnLine: the last line is printed in full.
OnLineFull(left) == LineWidth

OnLine(left) == IF left >= LineWidth THEN LineWidth ELSE left

\* One round of print_bytes.
DPrintLine ==
    /\ dpc = "print" /\ di < Lines
    /\ dout' = dout \o [j \in 1 .. OnLine(dleft) |-> di * LineWidth + j - 1]
    /\ dleft' = dleft - LineWidth /\ di' = di + 1
    /\ UNCHANGED <<dpc, dfile, dtype, dbytes, dshown, dret>>

\* parse_spnego after print_bytes.
DParseSpnego ==
    /\ dpc = "print" /\ di = Lines
    /\ \/ DecodesNegotiation /\ dshown' = dshown \cup {"negotiation"} /\ DExit(0)
       \/ ~DecodesNegotiation /\ DExit(1) /\ UNCHANGED dshown

\* The process has ended, and another may be started.
DEnd ==
    /\ dpc = "done"
    /\ dpc' = "idle" /\ dfile' = NoFile /\ dtype' = "gssapi" /\ dbytes' = 0
    /\ di' = 0 /\ dleft' = 0 /\ dout' = <<>> /\ dshown' = {} /\ dret' = 0

DecoderStep == DEnd \/ DChoose \/ DParseGssapi \/ DPrintLine \/ DParseSpnego

DecoderTypeOK ==
    /\ dpc \in {"idle", "choose", "initial", "print", "done"} /\ dtype \in Types
    /\ dbytes \in Nat /\ di \in Nat /\ dleft \in Int /\ dout \in Seq(0 .. BufferSize - 1)
    /\ dshown \subseteq {"token", "negotiation"} /\ dret \in {0, 1}
=============================================================================
