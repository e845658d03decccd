SPECIFICATION Spec
CONSTANTS
  VectorSize = 2
  MaxEntries = 3
  MaxRows = 2
  Functions = {"pdf_info", "pdf_qpdf_info", "pdf_outline", "pdf_structure", "pdf_attachments", "pdf_revisions", "pdf_pages_info", "pdf_fonts", "pdf_destinations", "read_pdf_words", "read_pdf_lines", "read_pdf_elements", "pdf_chunks", "read_pdf_tables", "pdf_page_images", "pdf_split", "pdf_split_blank", "pdf_ocr", "pdf_redact", "pdf_write_page_images", "pdf_sign", "pdf_form_fields", "pdf_annotations", "pdf_signatures", "pdf_images", "pdf_redact_lateral"}
INVARIANT FailsOnlyForCause
PROPERTIES KeepsStream Ends
CHECK_DEADLOCK FALSE
