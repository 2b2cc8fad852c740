SPECIFICATION Spec
CONSTANTS
    d1 = d1
    d2 = d2
    page = page
    page2 = page2
    source = source
    NoUrl = NoUrl
    Docs = {d1, d2}
    Urls = {page, page2, source}
    SourceUrls = {source}
    ChunkCount <- MCChunkCount
    TextOf <- MCTextOf
INVARIANTS
    TypeOK
    RecordsAreSound
    AnsweredIsSearchable
    PagesAreDeduplicated
