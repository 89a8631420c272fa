------------------------- MODULE MCMetadataService -------------------------
EXTENDS MetadataService
=============================================================================
