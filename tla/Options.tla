------------------------------- MODULE Options -------------------------------
(***************************************************************************)
(* The families of functions: pdf_text, pdf_render, pdf_pages, pdf_stamp,  *)
(* pdf_rewrite and ocr_image take a STRUCT of options per row, and the     *)
(* table functions read_pdf, pdf_info, pdf_objects, pdf_render and         *)
(* pdf_split choose a variant by a named parameter.                        *)
(*                                                                         *)
(* Options are a function from keys to values. A value is the name of a    *)
(* mode, "ok", "Null", "outside" (of a checked range) or "mistyped". What  *)
(* an operation does is its name and the options it reads: those a scalar  *)
(* function passes on with the call, and those the scan of a table         *)
(* function looks at. Whether it then succeeds belongs to the other        *)
(* modules.                                                                *)
(***************************************************************************)
EXTENDS Integers, Sequences

Null == "Null"
HasNull(opt) == \E key \in DOMAIN opt : opt[key] = Null
Setting(opt, key, fallback) == IF key \in DOMAIN opt THEN opt[key] ELSE fallback
Only(opt, keys) == DOMAIN opt \subseteq keys

Error == [is |-> "error", op |-> "none", reads |-> {}]
NullRow == [is |-> "null", op |-> "none", reads |-> {}]
Effect(op, opt, keys) == [is |-> "effect", op |-> op, reads |-> keys \cap DOMAIN opt]

OcrKeys == {"language", "psm", "oem", "tessdata_dir", "preprocess", "vars", "config", "dpi", "format"}
Allowed ==
  [pdf_text |-> {"format", "layout", "password"},
   pdf_render |-> {"format", "dpi"},
   pdf_pages |-> {"rotate", "rotate_pages"},
   pdf_stamp |-> {"mode", "text", "opacity", "prefix", "start"},
   pdf_rewrite |-> {"mode", "password", "owner_password"},
   ocr_image |-> OcrKeys]

\* Names and types are resolved once, when the query is bound.
PdfFamilyResolveOptions(function, opt) ==
  /\ Only(opt, Allowed[function])
  /\ \A key \in DOMAIN opt : opt[key] # "mistyped"

-----------------------------------------------------------------------------
(* A row has an input (a path or a blob), an output or page where the      *)
(* function takes one, and options: "absent", "Null" or "given" as opt.    *)

Missing(row) == row.input = Null \/ row.second = Null \/ row.options = Null
Refused(row) == ~row.blob /\ row.denied

PdfFamilyOcrImage(row) ==
  LET opt == [key \in {k \in DOMAIN row.opt : row.opt[k] # Null} |-> row.opt[key]]
      outside(key) == Setting(opt, key, "ok") = "outside"
  IN IF row.input = Null \/ row.options = Null THEN NullRow
     ELSE IF ~Only(row.opt, OcrKeys) \/ outside("psm") \/ outside("oem") \/ outside("dpi") \/ outside("format")
            THEN Error
     ELSE Effect("RecognizeImageBlob", opt, OcrKeys)

\* Mutant: every format takes the options of pdf_text.
AnyTextKeys(format) == {"format", "layout", "password"}

TextKeys(format) ==
  CASE format = "text" -> {"format", "layout", "password"}
    [] format \in {"html", "xml", "json"} -> {"format", "password"}
    [] format = "markdown" -> {"format"}

\* A NULL format skips the check of the other keys: the row is NULL anyway.
PdfFamilyText(row) ==
  LET format == Setting(row.opt, "format", "text")
  IN IF row.input = Null \/ row.options = Null THEN NullRow
     ELSE IF format \notin {Null, "text", "html", "xml", "json", "markdown"} THEN Error
     ELSE IF format # Null /\ ~Only(row.opt, TextKeys(format)) THEN Error
     ELSE IF HasNull(row.opt) THEN NullRow
     ELSE IF Refused(row) \/ (format = "markdown" /\ row.blob) THEN Error
     ELSE CASE format = "text" -> Effect("DocToText", row.opt, {"layout", "password"})
            [] format = "html" -> Effect("DocToHtml", row.opt, {"password"})
            [] format = "xml" -> Effect("DocToXml", row.opt, {"password"})
            [] format = "json" -> Effect("WriteJson", row.opt, {"password"})
            [] format = "markdown" -> Effect("DocToMarkdown", row.opt, {})

\* pdf_to_text(input, layout): the layout becomes an option.
PdfLegacyText(row) ==
  PdfFamilyText(IF row.second = "none" THEN row
                ELSE [row EXCEPT !.options = "given", !.opt = [key \in {"layout"} |-> row.second]])

PdfFamilyRender(row) ==
  LET format == Setting(row.opt, "format", "png")
  IN IF Missing(row) THEN NullRow
     ELSE IF ~Only(row.opt, {"format", "dpi"}) THEN Error
     ELSE IF HasNull(row.opt) THEN NullRow
     ELSE IF format \notin {"png", "svg"} \/ Refused(row) THEN Error
     ELSE Effect(IF format = "png" THEN "DocToPng" ELSE "DocToSvg", row.opt, {"dpi"})

\* The third argument is page ranges, then options may follow, or the options.
PdfFamilyPages(row) ==
  LET has(key) == key \in DOMAIN row.opt
      reads == {"rotate", "rotate_pages"}
  IN IF Missing(row) THEN NullRow
     ELSE IF ~Only(row.opt, reads) THEN Error
     ELSE IF HasNull(row.opt) THEN NullRow
     ELSE IF ~has("rotate") /\ (has("rotate_pages") \/ ~row.ranges) THEN Error
     ELSE IF ~has("rotate") THEN Effect("Pages", row.opt, {})
     ELSE IF row.opt["rotate"] = "outside" THEN Error
     ELSE Effect(IF row.ranges THEN "PagesThenRotate" ELSE "Rotate", row.opt, reads)

StampKeys(mode) ==
  CASE mode = "watermark" -> {"mode", "text", "opacity"}
    [] mode = "bates" -> {"mode", "prefix", "start"}

\* A NULL mode skips the check of the other keys, a missing one fails at the end.
PdfFamilyStamp(row) ==
  LET mode == Setting(row.opt, "mode", "none")
      has(key) == key \in DOMAIN row.opt
  IN IF Missing(row) THEN NullRow
     ELSE IF mode \notin {Null, "none", "watermark", "bates"} THEN Error
     ELSE IF mode \notin {Null, "none"} /\ ~Only(row.opt, StampKeys(mode)) THEN Error
     ELSE IF HasNull(row.opt) THEN NullRow
     ELSE CASE mode = "watermark" /\ has("text") -> Effect("Watermark", row.opt, {"text", "opacity"})
            [] mode = "bates" /\ has("prefix") /\ has("start") -> Effect("Bates", row.opt, {"prefix", "start"})
            [] OTHER -> Error

RewriteKeys(mode) ==
  CASE mode = "compress" -> {"mode"}
    [] mode = "encrypt" -> {"mode", "password", "owner_password"}
    [] mode \in {"decrypt", "repair"} -> {"mode", "password"}

PdfFamilyRewrite(row) ==
  LET mode == Setting(row.opt, "mode", "none")
      has(key) == key \in DOMAIN row.opt
  IN IF Missing(row) THEN NullRow
     ELSE IF mode \notin {Null, "none", "compress", "encrypt", "decrypt", "repair"} THEN Error
     ELSE IF mode \notin {Null, "none"} /\ ~Only(row.opt, RewriteKeys(mode)) THEN Error
     ELSE IF HasNull(row.opt) THEN NullRow
     ELSE CASE mode = "compress" -> Effect("Compress", row.opt, {})
            [] mode = "encrypt" /\ has("password") -> Effect("Encrypt", row.opt, {"password", "owner_password"})
            [] mode = "decrypt" /\ has("password") -> Effect("Decrypt", row.opt, {"password"})
            [] mode = "repair" -> Effect("Repair", row.opt, {"password"})
            [] OTHER -> Error

Answers(function, row) ==
  CASE function = "ocr_image" -> PdfFamilyOcrImage(row)
    [] function = "pdf_text" -> PdfFamilyText(row)
    [] function = "pdf_to_text" -> PdfLegacyText(row)
    [] function = "pdf_render" -> PdfFamilyRender(row)
    [] function = "pdf_pages" -> PdfFamilyPages(row)
    [] function = "pdf_stamp" -> PdfFamilyStamp(row)
    [] function = "pdf_rewrite" -> PdfFamilyRewrite(row)

\* Functions that write look at every pair of paths of the chunk first.
Writers == {"pdf_pages", "pdf_stamp", "pdf_rewrite"}
PdfCheckPairArgs(rows) == \A i \in DOMAIN rows : rows[i].input # Null /\ rows[i].second # Null => ~rows[i].denied

\* A chunk of rows; the first error ends the query, the rows before it had their
\* effects.
ScalarCall(call) ==
  LET done == [i \in DOMAIN call.rows |-> Answers(call.function, call.rows[i])]
      errors == {i \in DOMAIN done : done[i] = Error}
      bound == call.function = "pdf_to_text" \/
               \A i \in DOMAIN call.rows : PdfFamilyResolveOptions(call.function, call.rows[i].opt)
  IN IF ~bound \/ (call.function \in Writers /\ ~PdfCheckPairArgs(call.rows)) THEN <<Error>>
     ELSE IF errors = {} THEN done
     ELSE SubSeq(done, 1, CHOOSE i \in errors : \A j \in errors : i <= j)

-----------------------------------------------------------------------------
(* Table functions.                                                        *)

Inspect == {"password"}

\* Mutant: layout is registered with the parameters that the readers share.
AddLayoutToAll ==
  {"ocr", "auto_ocr", "ocr_language", "ocr_dpi", "ocr_psm", "ocr_oem", "ocr_preprocess", "ocr_retry",
   "tessdata_dir", "parse_tables", "password", "first_page", "last_page", "ocr_backend", "ocr_plugin",
   "ocr_endpoint", "ocr_vars", "ocr_config", "layout"}

AddOcrNamedParams ==
  {"ocr", "auto_ocr", "ocr_language", "ocr_dpi", "ocr_psm", "ocr_oem", "ocr_preprocess", "ocr_retry",
   "tessdata_dir", "parse_tables", "password", "first_page", "last_page", "ocr_backend", "ocr_plugin",
   "ocr_endpoint", "ocr_vars", "ocr_config"}
ImageOptions == {"password", "dpi", "first_page", "last_page", "format"}

Selector == [read_pdf |-> "grain", pdf_info |-> "detail", pdf_objects |-> "kind", pdf_render |-> "none",
             pdf_split |-> "mode"]
Default == [read_pdf |-> "page", pdf_info |-> "basic", pdf_objects |-> "", pdf_render |-> "memory",
            pdf_split |-> "page"]

Path == {"path"}
Variant(mode, inputs, options) == [mode |-> mode, inputs |-> inputs, options |-> options]
ReadPdf ==
  {Variant("page", Path, AddOcrNamedParams \cup {"layout", "ignore_errors"}),
   Variant("line", Path, AddOcrNamedParams \cup {"layout"}),
   Variant("element", Path, AddOcrNamedParams),
   Variant("chunk", Path, AddOcrNamedParams \cup {"chunk_size", "overlap"}),
   Variant("table", Path, AddOcrNamedParams \cup {"force"})}
PdfInfo == {Variant("basic", Path, Inspect \cup {"ignore_errors"}), Variant("qpdf", Path, Inspect)}
PdfObjects ==
  {Variant("outline", Path, Inspect \cup {"ignore_errors"}),
   Variant("structure", Path, Inspect \cup {"first_page", "last_page", "ignore_errors"}),
   Variant("form_fields", Path, {}), Variant("annotations", Path, {})}
  \cup {Variant(m, Path, Inspect) :
          m \in {"attachments", "revisions", "signatures", "images", "pages", "fonts", "destinations"}}
PdfRender == {Variant("memory", Path, ImageOptions), Variant("write", {"path", "list"}, ImageOptions)}
PdfSplit == {Variant("page", Path, {}), Variant("blank", Path, {"blank_threshold"})}
Variants ==
  [read_pdf |-> ReadPdf, pdf_info |-> PdfInfo, pdf_objects |-> PdfObjects, pdf_render |-> PdfRender,
   pdf_split |-> PdfSplit]

\* What the scans look at. Recognition takes its settings from MakeOcrOptions, and the
\* choice whether to recognise and whether to try again from the page's reader.
Recognition ==
  {"ocr", "auto_ocr", "ocr_retry", "ocr_language", "ocr_dpi", "ocr_psm", "ocr_oem", "tessdata_dir",
   "ocr_preprocess", "ocr_backend", "ocr_plugin", "ocr_vars", "ocr_config"}
PageRange == {"first_page", "last_page"}
ReadPages == {"password"} \cup PageRange \cup Recognition

ReadPdfReads ==
  [page |-> ReadPages \cup {"parse_tables", "layout", "ignore_errors"},
   line |-> ReadPages \cup {"layout"}, element |-> ReadPages,
   chunk |-> ReadPages \cup {"chunk_size", "overlap"}, table |-> ReadPages \cup {"force"}]
PdfInfoReads == [basic |-> {"password", "ignore_errors"}, qpdf |-> {"password"}]
PdfObjectsReads ==
  [outline |-> {"password", "ignore_errors"}, structure |-> {"password", "ignore_errors"} \cup PageRange,
   form_fields |-> {}, annotations |-> {}, revisions |-> {}, attachments |-> {"password"},
   signatures |-> {"password"}, images |-> {"password"}, pages |-> {"password"}, fonts |-> {"password"},
   destinations |-> {"password"}]
PdfRenderReads ==
  [memory |-> {"password", "dpi", "format"} \cup PageRange, write |-> {"password", "dpi", "format"} \cup PageRange]
PdfSplitReads == [page |-> {}, blank |-> {"blank_threshold"}]
Reads ==
  [read_pdf |-> ReadPdfReads, pdf_info |-> PdfInfoReads, pdf_objects |-> PdfObjectsReads,
   pdf_render |-> PdfRenderReads, pdf_split |-> PdfSplitReads]

\* What the engine accepts: the options of all variants, and the two selectors.
Advertised(family) ==
  (UNION {v.options : v \in Variants[family]})
  \cup (IF Selector[family] = "none" THEN {"output_dir"} ELSE {Selector[family]})

PdfTableFamilyBind(call) ==
  LET selector == Selector[call.family]
      writes == call.family = "pdf_render" /\ "output_dir" \in DOMAIN call.given
      mode == IF selector \in DOMAIN call.given THEN call.given[selector]
              ELSE IF writes THEN "write" ELSE Default[call.family]
      left == DOMAIN call.given \ ({selector} \cup (IF writes THEN {"output_dir"} ELSE {}))
      fit == {v \in Variants[call.family] : v.mode = mode /\ call.input \in v.inputs}
  IN IF \/ fit = {}
        \/ \E v \in fit : ~(left \subseteq v.options)
        \/ HasNull(call.given)
       THEN [is |-> "error", mode |-> "none", options |-> {}, reads |-> {}]
       ELSE [is |-> "bound", mode |-> mode, options |-> left, reads |-> left \cap Reads[call.family][mode]]

-----------------------------------------------------------------------------
\* What each operation needs.
Needs(op) ==
  CASE op = "Watermark" -> {"text"}
    [] op = "Bates" -> {"prefix", "start"}
    [] op \in {"Rotate", "PagesThenRotate"} -> {"rotate"}
    [] op \in {"Encrypt", "Decrypt"} -> {"password"}
    [] OTHER -> {}

\* When a row takes effect, every option it gives but the selectors is passed on to
\* the operation, which has what it needs, and neither an argument nor an option is
\* NULL (ocr_image takes a NULL option for one not given). A chunk with a path that is
\* denied writes nothing, not even for its other rows, and nothing is done for the
\* rows after an error.
OptionsTakeEffect(call, rows) ==
  /\ \A i \in DOMAIN rows :
       rows[i].is = "effect" =>
         LET row == call.rows[i]
             given == {k \in DOMAIN row.opt : row.opt[k] # Null}
         IN /\ row.input # Null /\ row.second # Null /\ row.options # Null
            /\ call.function # "ocr_image" => given = DOMAIN row.opt
            /\ given \ {"mode", "format"} \subseteq rows[i].reads
            /\ Needs(rows[i].op) \subseteq given \cup (IF call.function = "pdf_to_text" THEN {"layout"} ELSE {})
            /\ row.blob \/ ~row.denied
  /\ call.function \in Writers /\ (\E i \in DOMAIN rows : rows[i].is = "effect") =>
       \A i \in DOMAIN call.rows : call.rows[i].input # Null /\ call.rows[i].second # Null => ~call.rows[i].denied
  /\ Len(rows) < Len(call.rows) => rows[Len(rows)].is = "error"

\* Options that are accepted and not looked at. The documentation says so of two of
\* them: parse_tables is for the page grain, and ocr_endpoint is reserved (a failure
\* quotes it). A comment says so of the third, the password of pdf_revisions.
Ignored(family, mode) ==
  IF family = "read_pdf" THEN {"ocr_endpoint"} \cup (IF mode = "page" THEN {} ELSE {"parse_tables"})
  ELSE IF family = "pdf_objects" /\ mode = "revisions" THEN {"password"}
  ELSE {}

\* A table function runs the variant that was asked for, with every option that was
\* given and no other, or refuses; it refuses only an option that no variant of that
\* mode has, a NULL, or a mode that does not exist for such an input. The scan looks
\* at each of the options but those three.
VariantAsAsked(call, answer) ==
  LET selectors == {Selector[call.family], "output_dir"}
      asked == IF Selector[call.family] \in DOMAIN call.given THEN call.given[Selector[call.family]]
               ELSE IF "output_dir" \in DOMAIN call.given THEN "write" ELSE Default[call.family]
      usable == \E v \in Variants[call.family] :
                  v.mode = asked /\ call.input \in v.inputs /\ DOMAIN call.given \ selectors \subseteq v.options
  IN /\ answer.is = "bound" <=> usable /\ \A k \in DOMAIN call.given : call.given[k] # Null
     /\ answer.is = "bound" =>
          /\ answer.mode = asked /\ answer.options = DOMAIN call.given \ selectors
          /\ answer.options \ answer.reads = answer.options \cap Ignored(call.family, asked)
=============================================================================
